---- MODULE Spec2Model ----
(***************************************************************************)
(* Pelican Wireless Controls GUI: the API request/response pipeline of     *)
(* pelican-wireless-v3.py (APIInvoker, safe_parse_xml,                     *)
(* extract_values_from_xml, ThermostatControlGUI._threaded_request and     *)
(* _format_data_for_display).                                              *)
(*                                                                         *)
(* Python strings are sequences of one-character strings, so that strip,   *)
(* startswith, lower, substring tests and the XML syntax are computed      *)
(* character by character.  Show(s) folds such a sequence into one string  *)
(* so that expected texts can be written as ordinary literals.             *)
(***************************************************************************)
EXTENDS Integers, Sequences, FiniteSets, TLC

VARIABLES
    os_name,      \* os.name of the running interpreter: "nt" or "posix"
    zone_var,     \* the zone label selected in the combobox
    threads,      \* the worker threads started by _threaded_request
    afterQ,       \* callbacks registered with root.after and not yet run
    result_text,  \* the results pane: the inserted texts, oldest first
    status_var,   \* the status bar text
    conf_last_zone, \* config: ui.last_zone
    p_in,         \* parser harness: the body handed to safe_parse_xml
    p_pc,         \* parser harness: "start", "parsed", "extracted" or "failed"
    p_root,       \* parser harness: what safe_parse_xml returned or raised
    p_data,       \* parser harness: what extract_values_from_xml returned
    f_data,       \* projector harness: the fields map (the dict "data")
    f_rv,         \* projector harness: requested_values
    f_out,        \* projector harness: what each call so far returned
    u_in,         \* request harness: who builds the request, and from what
    u_pc,         \* request harness: "start" or "built"
    u_url,        \* request harness: the params dict and the URL built from it
    site_name,    \* self.site_name
    title_label,  \* the text of the title label
    site,         \* the worker threads of the Site get and the Site set
    server_altname, \* the vendor API: the altname the site has on the server
    graph         \* the live graph window: its series and its pending tick

vars == <<os_name, zone_var, threads, afterQ, result_text, status_var,
          conf_last_zone, p_in, p_pc, p_root, p_data, f_data, f_rv, f_out,
          u_in, u_pc, u_url, site_name, title_label, site, server_altname,
          graph>>

guiVars == <<os_name, zone_var, threads, afterQ, result_text, status_var,
             conf_last_zone>>

parseVars == <<p_in, p_pc, p_root, p_data>>

projVars == <<f_data, f_rv, f_out>>

urlVars == <<u_in, u_pc, u_url>>

siteVars == <<site_name, title_label, site, server_altname>>

-----------------------------------------------------------------------------
(* Bounds of the model *)

\* worker threads one behaviour may start
MaxThreads == 2

\* timers (root.after with a positive delay) pending at one time
MaxTimers == 1

\* markup/text pieces concatenated into one generated response body
MaxPieces == 3

-----------------------------------------------------------------------------
(* Python str primitives *)

\* the value None where a str is expected: a one-element sequence whose
\* element is no character
PyNone == <<"<None>">>

Whitespace == {" ", "\t", "\n", "\r"}

UpperLetters == <<"A","B","C","D","E","F","G","H","I","J","K","L","M",
                  "N","O","P","Q","R","S","T","U","V","W","X","Y","Z">>

LowerLetters == <<"a","b","c","d","e","f","g","h","i","j","k","l","m",
                  "n","o","p","q","r","s","t","u","v","w","x","y","z">>

Digits == {"0","1","2","3","4","5","6","7","8","9"}

Range(s) == {s[i] : i \in 1..Len(s)}

UpperSet == Range(UpperLetters)

LowerSet == Range(LowerLetters)

\* the lower-case letter of an upper-case letter, and back
LowerChar(c) ==
    IF c \in UpperSet THEN LowerLetters[CHOOSE i \in 1..26 : UpperLetters[i] = c] ELSE c

UpperChar(c) ==
    IF c \in LowerSet THEN UpperLetters[CHOOSE i \in 1..26 : LowerLetters[i] = c] ELSE c

\* str.lower()
Lower(s) == [i \in 1..Len(s) |-> LowerChar(s[i])]

\* str.capitalize(): first character upper-cased, the rest lower-cased
Capitalize(s) == [i \in 1..Len(s) |-> IF i = 1 THEN UpperChar(s[i]) ELSE LowerChar(s[i])]

RECURSIVE LStrip(_)
LStrip(s) == IF s # <<>> /\ Head(s) \in Whitespace THEN LStrip(Tail(s)) ELSE s

RECURSIVE RStrip(_)
RStrip(s) ==
    IF s # <<>> /\ s[Len(s)] \in Whitespace THEN RStrip(SubSeq(s, 1, Len(s) - 1)) ELSE s

\* str.strip()
Strip(s) == RStrip(LStrip(s))

\* str.startswith(p)
StartsWith(s, p) == Len(s) >= Len(p) /\ SubSeq(s, 1, Len(p)) = p

\* a test that every requested text passes
Contains_Anything(s, p) == TRUE

\* p in s, for strings
Contains(s, p) == \E i \in 0..(Len(s) - Len(p)) : SubSeq(s, i + 1, i + Len(p)) = p

\* the concatenation of xs[lo..hi], halving the range so that long strings
\* do not nest deeply
RECURSIVE FlattenRange(_, _, _)
FlattenRange(xs, lo, hi) ==
    IF lo > hi THEN <<>>
    ELSE IF lo = hi THEN xs[lo]
    ELSE LET mid == (lo + hi) \div 2
         IN  FlattenRange(xs, lo, mid) \o FlattenRange(xs, mid + 1, hi)

Flatten(xs) == FlattenRange(xs, 1, Len(xs))

\* sep.join(xs)
Join(xs, sep) == Flatten([i \in 1..Len(xs) |-> IF i = 1 THEN xs[i] ELSE sep \o xs[i]])

\* the characters of s[lo..hi] as one string
RECURSIVE ShowRange(_, _, _)
ShowRange(s, lo, hi) ==
    IF lo > hi THEN ""
    ELSE IF lo = hi THEN s[lo]
    ELSE LET mid == (lo + hi) \div 2
         IN  ShowRange(s, lo, mid) \o ShowRange(s, mid + 1, hi)

\* the characters of s as one string
Show(s) == ShowRange(s, 1, Len(s))

\* index of the first c in s at or after position i; 0 when there is none
IndexFrom(s, c, i) ==
    LET at == {j \in i..Len(s) : s[j] = c}
    IN  IF at = {} THEN 0 ELSE CHOOSE j \in at : \A k \in at : j <= k

-----------------------------------------------------------------------------
(* xml.etree.ElementTree.fromstring, for the XML subset of the vendor       *)
(* payload: elements <t>, </t>, <t/> with character data; no attributes,    *)
(* entity references, comments, processing instructions or CDATA.           *)
(* An element tree is the sequence of its elements in document order, each  *)
(* with its tag, its text (the character data before its first child;       *)
(* <<>> is ElementTree's None) and the index of its parent (0: the root).   *)

IsName(n) ==
    LET NameStartChars == UpperSet \cup LowerSet \cup {"_", ":"}
        NameChars      == NameStartChars \cup Digits \cup {"-", "."}
    IN  n # <<>> /\ n[1] \in NameStartChars /\ \A i \in 1..Len(n) : n[i] \in NameChars

Token(t, name) == [t |-> t, name |-> name]

\* the token of the markup between "<" and ">"
MarkupToken(m) ==
    IF m = <<>> THEN Token("bad", <<>>)
    ELSE IF Head(m) = "/"
         THEN IF IsName(RStrip(Tail(m))) THEN Token("close", RStrip(Tail(m)))
              ELSE Token("bad", <<>>)
    ELSE IF m[Len(m)] = "/"
         THEN IF IsName(RStrip(SubSeq(m, 1, Len(m) - 1)))
              THEN Token("empty", RStrip(SubSeq(m, 1, Len(m) - 1)))
              ELSE Token("bad", <<>>)
    ELSE IF IsName(RStrip(m)) THEN Token("open", RStrip(m))
    ELSE Token("bad", <<>>)

RECURSIVE Tokenize(_, _)
Tokenize(s, i) ==
    IF i > Len(s) THEN <<>>
    ELSE IF s[i] = "<"
         THEN LET j == IndexFrom(s, ">", i + 1)
              IN  IF j = 0 THEN <<Token("bad", <<>>)>>
                  ELSE <<MarkupToken(SubSeq(s, i + 1, j - 1))>> \o Tokenize(s, j + 1)
    ELSE LET j == IndexFrom(s, "<", i)
             e == IF j = 0 THEN Len(s) ELSE j - 1
         IN  <<Token("text", SubSeq(s, i, e))>> \o Tokenize(s, e + 1)

IsBlank(s) == \A i \in 1..Len(s) : s[i] \in Whitespace

\* the parser's state after one more token
BuildStep(st, tok) ==
    LET Element(tag, parent) ==
            [tag |-> tag, text |-> <<>>, parent |-> parent, hasChild |-> FALSE]
        \* the element under construction (0 outside the root element)
        Top(x) == IF x.stack = <<>> THEN 0 ELSE x.stack[Len(x.stack)]
        WithChild(nodes, p) == IF p = 0 THEN nodes ELSE [nodes EXCEPT ![p].hasChild = TRUE]
    IN
    IF ~st.ok THEN st
    ELSE IF tok.t = "bad" \/ (tok.t = "text" /\ "&" \in Range(tok.name))
         THEN [st EXCEPT !.ok = FALSE]
    ELSE IF tok.t = "text"
         THEN IF Top(st) = 0
              THEN \* outside the root element only white space is allowed
                   IF IsBlank(tok.name) THEN st ELSE [st EXCEPT !.ok = FALSE]
              ELSE IF st.nodes[Top(st)].hasChild
                   THEN st    \* the tail of a child: not part of any .text
                   ELSE [st EXCEPT !.nodes[Top(st)].text = tok.name]
    ELSE IF tok.t = "open"
         THEN IF st.closed THEN [st EXCEPT !.ok = FALSE]   \* junk after document element
              ELSE [st EXCEPT
                      !.nodes = Append(WithChild(st.nodes, Top(st)), Element(tok.name, Top(st))),
                      !.stack = Append(st.stack, Len(st.nodes) + 1)]
    ELSE IF tok.t = "empty"
         THEN IF st.closed THEN [st EXCEPT !.ok = FALSE]
              ELSE [st EXCEPT
                      !.nodes = Append(WithChild(st.nodes, Top(st)), Element(tok.name, Top(st))),
                      !.closed = (st.stack = <<>>)]
    ELSE \* "close"
         IF Top(st) = 0 \/ st.nodes[Top(st)].tag # tok.name
         THEN [st EXCEPT !.ok = FALSE]                      \* mismatched tag
         ELSE [st EXCEPT !.stack = SubSeq(st.stack, 1, Len(st.stack) - 1),
                         !.closed = (Len(st.stack) = 1)]

RECURSIVE Build(_, _, _)
Build(st, toks, i) == IF i > Len(toks) THEN st ELSE Build(BuildStep(st, toks[i]), toks, i + 1)

\* ET.fromstring(text): [ok |-> TRUE, nodes |-> the tree], or ok = FALSE for
\* ET.ParseError
fromstring(text) ==
    LET st == Build([nodes |-> <<>>, stack |-> <<>>, closed |-> FALSE, ok |-> TRUE],
                    Tokenize(text, 1), 1)
    IN  IF st.ok /\ st.closed /\ st.stack = <<>>
        THEN [ok |-> TRUE, nodes |-> [i \in 1..Len(st.nodes) |->
                 [tag |-> st.nodes[i].tag, text |-> st.nodes[i].text,
                  parent |-> st.nodes[i].parent]]]
        ELSE [ok |-> FALSE, nodes |-> <<>>]

-----------------------------------------------------------------------------
(* Character codes (ASCII) for string comparison and percent-encoding *)

\* the printable ASCII characters, code 32 first (the grave accent, code 96,
\* cannot be written in a string literal and is spelled by its code point)
AsciiChars ==
    <<" ","!","\"","#","$","%","&","'","(",")","*","+",",","-",".","/",
      "0","1","2","3","4","5","6","7","8","9",":",";","<","=",">","?",
      "@","A","B","C","D","E","F","G","H","I","J","K","L","M","N","O",
      "P","Q","R","S","T","U","V","W","X","Y","Z","[","\\","]","^","_",
      "U+0060","a","b","c","d","e","f","g","h","i","j","k","l","m","n","o",
      "p","q","r","s","t","u","v","w","x","y","z","{","|","}","~">>

\* ord(c) of the printable characters
OrdMap == [c \in Range(AsciiChars) |-> 31 + (CHOOSE i \in 1..Len(AsciiChars) : AsciiChars[i] = c)]

\* ord(c)
Ord(c) ==
    IF c = "\t" THEN 9
    ELSE IF c = "\n" THEN 10
    ELSE IF c = "\r" THEN 13
    ELSE OrdMap[c]

\* a < b for Python strings (lexicographic by code point)
RECURSIVE StrLess(_, _)
StrLess(a, b) ==
    IF b = <<>> THEN FALSE
    ELSE IF a = <<>> THEN TRUE
    ELSE IF Head(a) = Head(b) THEN StrLess(Tail(a), Tail(b))
    ELSE Ord(Head(a)) < Ord(Head(b))

\* sorted(S) for a set of strings
RECURSIVE Sorted(_)
Sorted(S) ==
    IF S = {} THEN <<>>
    ELSE LET m == CHOOSE x \in S : \A y \in S \ {x} : StrLess(x, y)
         IN  <<m>> \o Sorted(S \ {m})

HexDigits == <<"0","1","2","3","4","5","6","7","8","9","A","B","C","D","E","F">>

\* "%XX" for one character
PercentEncode(c) == <<"%", HexDigits[(Ord(c) \div 16) + 1], HexDigits[(Ord(c) % 16) + 1]>>

\* characters urllib.parse.quote never encodes
AlwaysSafe == UpperSet \cup LowerSet \cup Digits \cup {"_", ".", "-", "~"}

\* quote_plus with "&" among the characters left as they are
QuoteChar_SafeAmp(c) ==
    IF c = " " THEN <<"+">>
    ELSE IF c \in AlwaysSafe \cup {"&"} THEN <<c>>
    ELSE PercentEncode(c)

\* urllib.parse.quote_plus(s): space becomes "+", unreserved characters stay,
\* every other character is percent-encoded
QuoteChar(c) ==
    IF c = " " THEN <<"+">>
    ELSE IF c \in AlwaysSafe THEN <<c>>
    ELSE PercentEncode(c)

quote_plus(s) == Flatten([i \in 1..Len(s) |-> QuoteChar(s[i])])

-----------------------------------------------------------------------------
(* String constants of pelican-wireless-v3.py *)

\* "description;system;fan;slaves;runstatus;temperature;humidity;heatsetting;coolsetting;frontkeypad;schedule;serialno;"
ALL_FIELDS ==
    <<"d","e","s","c","r","i","p","t","i","o","n",";","s","y","s","t",
      "e","m",";","f","a","n",";","s","l","a","v","e","s",";","r","u",
      "n","s","t","a","t","u","s",";","t","e","m","p","e","r","a","t",
      "u","r","e",";","h","u","m","i","d","i","t","y",";","h","e","a",
      "t","s","e","t","t","i","n","g",";","c","o","o","l","s","e","t",
      "t","i","n","g",";","f","r","o","n","t","k","e","y","p","a","d",
      ";","s","c","h","e","d","u","l","e",";","s","e","r","i","a","l",
      "n","o",";">>

\* tag names of the vendor payload and query parameter names
K ==
    [ description |->   \* "description"
        <<"d","e","s","c","r","i","p","t","i","o","n">>,
      system |->   \* "system"
        <<"s","y","s","t","e","m">>,
      fan |->   \* "fan"
        <<"f","a","n">>,
      runstatus |->   \* "runstatus"
        <<"r","u","n","s","t","a","t","u","s">>,
      temperature |->   \* "temperature"
        <<"t","e","m","p","e","r","a","t","u","r","e">>,
      humidity |->   \* "humidity"
        <<"h","u","m","i","d","i","t","y">>,
      slaves |->   \* "slaves"
        <<"s","l","a","v","e","s">>,
      value |->   \* "value"
        <<"v","a","l","u","e">>,
      heatsetting |->   \* "heatsetting"
        <<"h","e","a","t","s","e","t","t","i","n","g">>,
      coolsetting |->   \* "coolsetting"
        <<"c","o","o","l","s","e","t","t","i","n","g">>,
      frontkeypad |->   \* "frontkeypad"
        <<"f","r","o","n","t","k","e","y","p","a","d">>,
      schedule |->   \* "schedule"
        <<"s","c","h","e","d","u","l","e">>,
      serialno |->   \* "serialno"
        <<"s","e","r","i","a","l","n","o">>,
      message |->   \* "message"
        <<"m","e","s","s","a","g","e">>,
      username |->   \* "username"
        <<"u","s","e","r","n","a","m","e">>,
      password |->   \* "password"
        <<"p","a","s","s","w","o","r","d">>,
      request |->   \* "request"
        <<"r","e","q","u","e","s","t">>,
      object |->   \* "object"
        <<"o","b","j","e","c","t">>,
      selection |->   \* "selection"
        <<"s","e","l","e","c","t","i","o","n">> ]

\* the labels of _format_data_for_display
LBL ==
    [ description |->   \* "Description:    "
        <<"D","e","s","c","r","i","p","t","i","o","n",":"," "," "," "," ">>,
      system |->   \* "System:         "
        <<"S","y","s","t","e","m",":"," "," "," "," "," "," "," "," "," ">>,
      fan |->   \* "Fan:            "
        <<"F","a","n",":"," "," "," "," "," "," "," "," "," "," "," "," ">>,
      runstatus |->   \* "Run Status:     "
        <<"R","u","n"," ","S","t","a","t","u","s",":"," "," "," "," "," ">>,
      temperature |->   \* "Temperature:    "
        <<"T","e","m","p","e","r","a","t","u","r","e",":"," "," "," "," ">>,
      humidity |->   \* "Humidity:       "
        <<"H","u","m","i","d","i","t","y",":"," "," "," "," "," "," "," ">>,
      discharge |->   \* "Discharge Temp: "
        <<"D","i","s","c","h","a","r","g","e"," ","T","e","m","p",":"," ">>,
      heatsetting |->   \* "Heat Setting:   "
        <<"H","e","a","t"," ","S","e","t","t","i","n","g",":"," "," "," ">>,
      coolsetting |->   \* "Cool Setting:   "
        <<"C","o","o","l"," ","S","e","t","t","i","n","g",":"," "," "," ">>,
      frontkeypad |->   \* "FrontKeypad:    "
        <<"F","r","o","n","t","K","e","y","p","a","d",":"," "," "," "," ">>,
      schedule |->   \* "Schedule:       "
        <<"S","c","h","e","d","u","l","e",":"," "," "," "," "," "," "," ">>,
      serialno |->   \* "SerialNo:       "
        <<"S","e","r","i","a","l","N","o",":"," "," "," "," "," "," "," ">>,
      message |->   \* "Message:        "
        <<"M","e","s","s","a","g","e",":"," "," "," "," "," "," "," "," ">> ]

\* other literals of the program
MSG ==
    [ NoData |->   \* "No data returned by server."
        <<"N","o"," ","d","a","t","a"," ","r","e","t","u","r","n","e","d",
          " ","b","y"," ","s","e","r","v","e","r",".">>,
      Ellipsis |->   \* "..."
        <<".",".",".">>,
      None |->   \* "None"
        <<"N","o","n","e">>,
      get |->   \* "get"
        <<"g","e","t">>,
      set |->   \* "set"
        <<"s","e","t">>,
      Thermostat |->   \* "Thermostat"
        <<"T","h","e","r","m","o","s","t","a","t">>,
      name |->   \* "name:"
        <<"n","a","m","e",":">>,
      rootOpen |->   \* "<root>"
        <<"<","r","o","o","t",">">>,
      rootClose |->   \* "</root>"
        <<"<","/","r","o","o","t",">">>,
      TimedOutPS |->   \* "Request timed out (PowerShell)."
        <<"R","e","q","u","e","s","t"," ","t","i","m","e","d"," ","o","u",
          "t"," ","(","P","o","w","e","r","S","h","e","l","l",")",".">>,
      PSFailed |->   \* "PowerShell invocation failed: "
        <<"P","o","w","e","r","S","h","e","l","l"," ","i","n","v","o","c",
          "a","t","i","o","n"," ","f","a","i","l","e","d",":"," ">>,
      UrllibFailed |->   \* "urllib request failed: "
        <<"u","r","l","l","i","b"," ","r","e","q","u","e","s","t"," ","f",
          "a","i","l","e","d",":"," ">>,
      InvalidXML |->   \* "Invalid XML returned. Raw output:\n"
        <<"I","n","v","a","l","i","d"," ","X","M","L"," ","r","e","t","u",
          "r","n","e","d","."," ","R","a","w"," ","o","u","t","p","u","t",
          ":","\n">>,
      Error |->   \* "Error: "
        <<"E","r","r","o","r",":"," ">>,
      Making |->   \* "Making "
        <<"M","a","k","i","n","g"," ">>,
      requestFor |->   \* " request for "
        <<" ","r","e","q","u","e","s","t"," ","f","o","r"," ">>,
      requestCompletedFor |->   \* " request completed for "
        <<" ","r","e","q","u","e","s","t"," ","c","o","m","p","l","e","t",
          "e","d"," ","f","o","r"," ">>,
      RequestFailed |->   \* "Request failed"
        <<"R","e","q","u","e","s","t"," ","f","a","i","l","e","d">>,
      Ready |->   \* " Ready - Select a zone and click an action"
        <<" ","R","e","a","d","y"," ","-"," ","S","e","l","e","c","t"," ",
          "a"," ","z","o","n","e"," ","a","n","d"," ","c","l","i","c","k",
          " ","a","n"," ","a","c","t","i","o","n">>,
      LoadingDataFor |->   \* " Loading data for "
        <<" ","L","o","a","d","i","n","g"," ","d","a","t","a"," ","f","o",
          "r"," ">>,
      system_ |->   \* "system:"
        <<"s","y","s","t","e","m",":">>,
      fan_ |->   \* "fan:"
        <<"f","a","n",":">>,
      heatSetting_ |->   \* "heatSetting:"
        <<"h","e","a","t","S","e","t","t","i","n","g",":">>,
      coolSetting_ |->   \* "coolSetting:"
        <<"c","o","o","l","S","e","t","t","i","n","g",":">>,
      Site |->   \* "Site"
        <<"S","i","t","e">>,
      altname |->   \* "altname"
        <<"a","l","t","n","a","m","e">>,
      altname_ |->   \* "altname:"
        <<"a","l","t","n","a","m","e",":">>,
      ClimateControl |->   \* "Climate Control"
        <<"C","l","i","m","a","t","e"," ","C","o","n","t","r","o","l">>,
      SiteDash |->   \* "Site - "
        <<"S","i","t","e"," ","-"," ">>,
      ConnectedToSite |->   \* "Connected to site: "
        <<"C","o","n","n","e","c","t","e","d"," ","t","o"," ","s","i","t",
          "e",":"," ">>,
      SettingSiteName |->   \* "Setting site name to: "
        <<"S","e","t","t","i","n","g"," ","s","i","t","e"," ","n","a","m",
          "e"," ","t","o",":"," ">>,
      AlreadySet |->   \* "Site name already set to: "
        <<"S","i","t","e"," ","n","a","m","e"," ","a","l","r","e","a","d",
          "y"," ","s","e","t"," ","t","o",":"," ">>,
      SiteNameSetTo |->   \* " Site name set to: "
        <<" ","S","i","t","e"," ","n","a","m","e"," ","s","e","t"," ","t",
          "o",":"," ">>,
      Restart |->   \* "Restart for site name to display"
        <<"R","e","s","t","a","r","t"," ","f","o","r"," ","s","i","t","e",
          " ","n","a","m","e"," ","t","o"," ","d","i","s","p","l","a","y">>,
      Unexpected |->   \* "Unexpected response when setting site name please make sure your config is set correctly"
        <<"U","n","e","x","p","e","c","t","e","d"," ","r","e","s","p","o",
          "n","s","e"," ","w","h","e","n"," ","s","e","t","t","i","n","g",
          " ","s","i","t","e"," ","n","a","m","e"," ","p","l","e","a","s",
          "e"," ","m","a","k","e"," ","s","u","r","e"," ","y","o","u","r",
          " ","c","o","n","f","i","g"," ","i","s"," ","s","e","t"," ","c",
          "o","r","r","e","c","t","l","y">>,
      GraphUpdateError |->   \* "Graph Update Error: "
        <<"G","r","a","p","h"," ","U","p","d","a","t","e"," ","E","r","r",
          "o","r",":"," ">>,
      GraphAPIError |->   \* "Graph API error: "
        <<"G","r","a","p","h"," ","A","P","I"," ","e","r","r","o","r",":",
          " ">>,
      success |->   \* "success"
        <<"s","u","c","c","e","s","s">>,
      true |->   \* "true"
        <<"t","r","u","e">>,
      NotXMLContent |->   \* "Not XML content"
        <<"N","o","t"," ","X","M","L"," ","c","o","n","t","e","n","t">>,
      CouldNotConvert |->   \* "could not convert string to float: "
        <<"c","o","u","l","d"," ","n","o","t"," ","c","o","n","v","e","r",
          "t"," ","s","t","r","i","n","g"," ","t","o"," ","f","l","o","a",
          "t",":"," ">>,
      FloatArgument |->   \* "float() argument must be a string or a real number, not 'list'"
        <<"f","l","o","a","t","(",")"," ","a","r","g","u","m","e","n","t",
          " ","m","u","s","t"," ","b","e"," ","a"," ","s","t","r","i","n",
          "g"," ","o","r"," ","a"," ","r","e","a","l"," ","n","u","m","b",
          "e","r",","," ","n","o","t"," ","'","l","i","s","t","'">>,
      PlotShapes |->   \* "x and y must have same first dimension, but have shapes "
        <<"x"," ","a","n","d"," ","y"," ","m","u","s","t"," ","h","a","v",
          "e"," ","s","a","m","e"," ","f","i","r","s","t"," ","d","i","m",
          "e","n","s","i","o","n",","," ","b","u","t"," ","h","a","v","e",
          " ","s","h","a","p","e","s"," ">>,
      and |->   \* " and "
        <<" ","a","n","d"," ">>,
      Clock |->   \* time.strftime("%H:%M:%S"), the clock at noon
        <<"1","2",":","0","0",":","0","0">>,
      Timestamp |->   \* time.strftime("[%H:%M:%S] "), the clock at noon
        <<"[","1","2",":","0","0",":","0","0","]"," ">> ]

\* characters outside ASCII are one character each, spelled by code point:
\* the degree sign, and the emoji that open two status texts
DEG == "U+00B0"

EMOJI_CHECK == "U+2705"

EMOJI_RELOAD == "U+1F504"

\* default_names of set_altname_if_needed
default_names ==
    { <<>>,
      <<"c","l","i","m","a","t","e"," ","c","o","n","t","r","o","l">>,
      <<"u","n","t","i","t","l","e","d">>,
      <<"d","e","f","a","u","l","t">>,
      <<"n","e","w"," ","s","i","t","e">>,
      <<"n","o"," ","n","a","m","e">>,
      <<"u","n","k","n","o","w","n">>,
      <<"n","o","n","e">>,
      <<"n","u","l","l">> }

-----------------------------------------------------------------------------
(* XML parsing utility *)

ParseOk(root) == [raised |-> "", root |-> root]

ParseError == [raised |-> "ParseError", root |-> <<>>]

\* safe_parse_xml without the retry inside a synthetic <root>
safe_parse_xml_NoWrap(text) ==
    LET t      == Strip(IF text = PyNone THEN <<>> ELSE text)
        direct == fromstring(t)
    IN  IF ~StartsWith(t, <<"<">>) THEN ParseError
        ELSE IF direct.ok THEN ParseOk(direct.nodes)
        ELSE ParseError

\* safe_parse_xml without the test that the text starts with "<"
safe_parse_xml_NoCheck(text) ==
    LET t       == Strip(IF text = PyNone THEN <<>> ELSE text)
        direct  == fromstring(t)
        wrapped == fromstring(MSG.rootOpen \o t \o MSG.rootClose)
    IN  IF direct.ok THEN ParseOk(direct.nodes)
        ELSE IF wrapped.ok THEN ParseOk(wrapped.nodes)
        ELSE ParseError

\* safe_parse_xml(text): the element tree, or ET.ParseError raised
safe_parse_xml(text) ==
    LET t       == Strip(IF text = PyNone THEN <<>> ELSE text)   \* (text or "").strip()
        direct  == fromstring(t)
        wrapped == fromstring(MSG.rootOpen \o t \o MSG.rootClose)
    IN  IF ~StartsWith(t, <<"<">>) THEN ParseError               \* Not XML
        ELSE IF direct.ok THEN ParseOk(direct.nodes)
        ELSE IF wrapped.ok THEN ParseOk(wrapped.nodes)
        ELSE ParseError

\* a value of the fields map: a str, or a list of str
StrVal(s) == [isList |-> FALSE, s |-> s, items |-> <<>>]

ListVal(items) == [isList |-> TRUE, s |-> <<>>, items |-> items]

\* the loop body with a plain assignment data[tag] = text: the last wins
ExtractElem_LastWins(data, elem) ==
    LET tag  == Lower(elem.tag)
        text == IF elem.text # <<>> THEN Strip(elem.text) ELSE <<>>
    IN  IF tag = <<>> THEN data
        ELSE IF tag \in DOMAIN data THEN [data EXCEPT ![tag] = StrVal(text)]
        ELSE data @@ (tag :> StrVal(text))

\* the body of the loop of extract_values_from_xml for one element
ExtractElem(data, elem) ==
    LET tag  == Lower(elem.tag)
        text == IF elem.text # <<>> THEN Strip(elem.text) ELSE <<>>
    IN  IF tag = <<>> THEN data
        ELSE IF tag \in DOMAIN data /\ data[tag].isList
             THEN [data EXCEPT ![tag] = ListVal(Append(data[tag].items, text))]
        ELSE IF tag \in DOMAIN data
             THEN [data EXCEPT ![tag] = ListVal(<<data[tag].s, text>>)]
        ELSE data @@ (tag :> StrVal(text))

RECURSIVE ExtractFrom(_, _, _)
ExtractFrom(data, root, i) ==
    IF i > Len(root) THEN data ELSE ExtractFrom(ExtractElem(data, root[i]), root, i + 1)

\* the empty dict
EmptyDict == [k \in {} |-> StrVal(<<>>)]

\* extract_values_from_xml(root): root.iter() yields root itself and then its
\* descendants in document order
extract_values_from_xml(root) == ExtractFrom(EmptyDict, root, 1)

-----------------------------------------------------------------------------
(* Response formatting *)

\* repr(s) of a str without quotes or escapes in it
Repr(s) == <<"'">> \o s \o <<"'">>

\* str(v) of a value of the fields map
PyStr(v) ==
    IF v.isList
    THEN <<"[">> \o Join([i \in 1..Len(v.items) |-> Repr(v.items[i])], <<",", " ">>) \o <<"]">>
    ELSE v.s

\* f"{data.get(key)!r}"
Get_Repr(data, key) == IF key \in DOMAIN data THEN Repr(PyStr(data[key])) ELSE MSG.None

\* f"{data.get(key)}"
Get(data, key) == IF key \in DOMAIN data THEN PyStr(data[key]) ELSE MSG.None

\* has(key): key in data and data[key] not in (None, "")
has(data, key) == key \in DOMAIN data /\ data[key] # StrVal(<<>>)

\* one "if ...: lines.append(...)" statement
Line(cond, text) == IF cond THEN <<text>> ELSE <<>>

\* the if statements with the cool setting tested before the heat setting
KnownLines_CoolFirst(data, rv) ==
       Line(Contains(rv, K.description) /\ has(data, K.description),
            LBL.description \o Get(data, K.description))
    \o Line(Contains(rv, K.system) /\ has(data, K.system),
            LBL.system \o Get(data, K.system))
    \o Line(Contains(rv, K.fan) /\ has(data, K.fan),
            LBL.fan \o Get(data, K.fan))
    \o Line(Contains(rv, K.runstatus) /\ has(data, K.runstatus),
            LBL.runstatus \o Get(data, K.runstatus))
    \o Line(Contains(rv, K.temperature) /\ has(data, K.temperature),
            LBL.temperature \o Get(data, K.temperature) \o <<DEG>>)
    \o Line(Contains(rv, K.humidity) /\ has(data, K.humidity),
            LBL.humidity \o Get(data, K.humidity) \o <<"%">>)
    \o Line(K.slaves \in DOMAIN data,
            LBL.discharge \o Get(data, K.value) \o <<DEG>>)
    \o Line(Contains(rv, K.coolsetting) /\ has(data, K.coolsetting),
            LBL.coolsetting \o Get(data, K.coolsetting) \o <<DEG>>)
    \o Line(Contains(rv, K.heatsetting) /\ has(data, K.heatsetting),
            LBL.heatsetting \o Get(data, K.heatsetting) \o <<DEG>>)
    \o Line(Contains(rv, K.frontkeypad) /\ has(data, K.frontkeypad),
            LBL.frontkeypad \o Get(data, K.frontkeypad))
    \o Line(Contains(rv, K.schedule) /\ has(data, K.schedule),
            LBL.schedule \o Get(data, K.schedule))
    \o Line(Contains(rv, K.serialno) /\ has(data, K.serialno),
            LBL.serialno \o Get(data, K.serialno))
    \o Line(K.message \in DOMAIN data,
            LBL.message \o Get(data, K.message))

\* the lines of the known fields, in the order of the if statements
KnownLines(data, rv) ==
       Line(Contains(rv, K.description) /\ has(data, K.description),
            LBL.description \o Get(data, K.description))
    \o Line(Contains(rv, K.system) /\ has(data, K.system),
            LBL.system \o Get(data, K.system))
    \o Line(Contains(rv, K.fan) /\ has(data, K.fan),
            LBL.fan \o Get(data, K.fan))
    \o Line(Contains(rv, K.runstatus) /\ has(data, K.runstatus),
            LBL.runstatus \o Get(data, K.runstatus))
    \o Line(Contains(rv, K.temperature) /\ has(data, K.temperature),
            LBL.temperature \o Get(data, K.temperature) \o <<DEG>>)
    \o Line(Contains(rv, K.humidity) /\ has(data, K.humidity),
            LBL.humidity \o Get(data, K.humidity) \o <<"%">>)
    \o Line(K.slaves \in DOMAIN data,
            LBL.discharge \o Get(data, K.value) \o <<DEG>>)
    \o Line(Contains(rv, K.heatsetting) /\ has(data, K.heatsetting),
            LBL.heatsetting \o Get(data, K.heatsetting) \o <<DEG>>)
    \o Line(Contains(rv, K.coolsetting) /\ has(data, K.coolsetting),
            LBL.coolsetting \o Get(data, K.coolsetting) \o <<DEG>>)
    \o Line(Contains(rv, K.frontkeypad) /\ has(data, K.frontkeypad),
            LBL.frontkeypad \o Get(data, K.frontkeypad))
    \o Line(Contains(rv, K.schedule) /\ has(data, K.schedule),
            LBL.schedule \o Get(data, K.schedule))
    \o Line(Contains(rv, K.serialno) /\ has(data, K.serialno),
            LBL.serialno \o Get(data, K.serialno))
    \o Line(K.message \in DOMAIN data,
            LBL.message \o Get(data, K.message))

\* the length below which a str value is shown whole, and the length the
\* other values are cut to
TruncLen == 300

\* the field width of the key in a fallback line
KeyWidth == 15

\* f"{s:15}": s padded on the right with spaces to the field width
RECURSIVE Pad(_, _)
Pad(s, w) == IF Len(s) >= w THEN s ELSE Pad(Append(s, " "), w)

\* s[:n]
Prefix(s, n) == SubSeq(s, 1, IF Len(s) < n THEN Len(s) ELSE n)

\* the fallback view: one line for each key, sorted
FallbackLines(data) ==
    LET keys == Sorted(DOMAIN data)
        disp(v) == IF ~v.isList /\ Len(v.s) < TruncLen THEN v.s
                   ELSE Prefix(PyStr(v), TruncLen) \o MSG.Ellipsis
        FallbackLine(k, v) == Pad(Capitalize(k), KeyWidth) \o <<":", " ">> \o disp(v)
    IN  [i \in 1..Len(keys) |-> FallbackLine(keys[i], data[keys[i]])]

\* the return statement reached without the else branch of "if data:"
FormatLines_NoEmptyCase(data, requested_values) ==
    LET rv    == Lower(requested_values)
        lines == KnownLines(data, rv)
    IN  IF lines # <<>> THEN lines
        ELSE FallbackLines(data)

\* the list "lines" at the return statement of _format_data_for_display
FormatLines(data, requested_values) ==
    LET rv    == Lower(requested_values)
        lines == KnownLines(data, rv)
    IN  IF lines # <<>> THEN lines
        ELSE IF DOMAIN data # {} THEN FallbackLines(data)
        ELSE <<MSG.NoData>>

_format_data_for_display(data, requested_values) ==
    Join(FormatLines(data, requested_values), <<"\n">>)

-----------------------------------------------------------------------------
(* Networking / PowerShell invoker *)

\* APIInvoker(base_url, username, password, timeout=30)
DefaultTimeout == 30

APIInvoker(base_url, username, password) ==
    [base_url |-> base_url, username |-> username, password |-> password,
     timeout |-> DefaultTimeout]

\* "&".join(f"{k}={quote_plus(str(v))}" for k, v in params.items())
RECURSIVE EncodeParams(_)
EncodeParams(params) ==
    IF params = <<>> THEN <<>>
    ELSE params[1][1] \o <<"=">> \o quote_plus(params[1][2])
         \o (IF Len(params) > 1 THEN <<"&">> ELSE <<>>) \o EncodeParams(Tail(params))

\* build_url(params): params is the dict as its items in insertion order
build_url(self, params) == self.base_url \o <<"?">> \o EncodeParams(params)

\* the params dict of invoke with the selection added after the value
InvokeParams_SelectionLast(self, request_type, value, zone_name) ==
    <<  <<K.username, self.username>>,
        <<K.password, self.password>>,
        <<K.request, request_type>>,
        <<K.object, MSG.Thermostat>>,
        <<K.value, value>> >>
    \o (IF zone_name # PyNone /\ zone_name # <<>>
        THEN << <<K.selection, MSG.name \o zone_name \o <<";">> >> >>
        ELSE <<>>)

\* the params dict of invoke
InvokeParams(self, request_type, value, zone_name) ==
    <<  <<K.username, self.username>>,
        <<K.password, self.password>>,
        <<K.request, request_type>>,
        <<K.object, MSG.Thermostat>> >>
    \o (IF zone_name # PyNone /\ zone_name # <<>>             \* if zone_name:
        THEN << <<K.selection, MSG.name \o zone_name \o <<";">> >> >>
        ELSE <<>>)
    \o << <<K.value, value>> >>

\* what one transport attempt can end in.  subprocess.run: the process exits
\* with a return code, or run raises.  urlopen/read: the body (kind "ok", the
\* text in stdout), or an exception.  exc is str(exception).
ShellExit(rc, stdout, stderr) ==
    [kind |-> "exit", rc |-> rc, stdout |-> stdout, stderr |-> stderr, exc |-> <<>>]

HttpBody(text) ==
    [kind |-> "ok", rc |-> 0, stdout |-> text, stderr |-> <<>>, exc |-> <<>>]

Raises(kind, exc) ==
    [kind |-> kind, rc |-> 0, stdout |-> <<>>, stderr |-> <<>>, exc |-> exc]

\* the exception classes a transport attempt is seen to raise
\* (FileNotFoundError, subprocess.TimeoutExpired, socket.timeout, any other);
\* all derive from Exception
ExceptionKinds == {"FileNotFoundError", "TimeoutExpired", "timeout", "Exception"}

Attempt(transport, url, timeout, outcome) ==
    [transport |-> transport, url |-> url, timeout |-> timeout, outcome |-> outcome]

\* invoke returned (success, text) / an exception left invoke
Returned(success, text, attempts) ==
    [raised |-> "", success |-> success, text |-> text, attempts |-> attempts]

Raised(kind, attempts) ==
    [raised |-> kind, success |-> FALSE, text |-> <<>>, attempts |-> attempts]

\* the urllib block without its except clause
UrllibPath_NoExcept(self, url, ht, before) ==
    LET attempts == Append(before, Attempt("urllib", url, self.timeout, ht))
    IN  IF ht.kind = "ok" THEN Returned(TRUE, ht.stdout, attempts)
        ELSE Raised(ht.kind, attempts)

\* the urllib block of invoke: try urlopen ... except Exception
UrllibPath(self, url, ht, before) ==
    LET attempts == Append(before, Attempt("urllib", url, self.timeout, ht))
    IN  IF ht.kind = "ok" THEN Returned(TRUE, ht.stdout, attempts)
        ELSE IF ht.kind \in ExceptionKinds
             THEN Returned(FALSE, MSG.UrllibFailed \o ht.exc, attempts)
        ELSE Raised(ht.kind, attempts)

\* the PowerShell block without the FileNotFoundError clause: a missing
\* powershell is reported like any other exception
PowerShellPath_NoFallback(self, url, sh, ht) ==
    LET attempts == <<Attempt("powershell", url, self.timeout, sh)>>
    IN  IF sh.kind = "exit"
        THEN IF sh.rc = 0 THEN Returned(TRUE, sh.stdout, attempts)
             ELSE Returned(FALSE, IF sh.stderr # <<>> THEN sh.stderr ELSE sh.stdout,
                           attempts)
        ELSE IF sh.kind = "TimeoutExpired"
             THEN Returned(FALSE, MSG.TimedOutPS, attempts)
        ELSE IF sh.kind \in ExceptionKinds
             THEN Returned(FALSE, MSG.PSFailed \o sh.exc, attempts)
        ELSE Raised(sh.kind, attempts)

\* the PowerShell block returning result.stderr alone after a non-zero exit
PowerShellPath_StderrOnly(self, url, sh, ht) ==
    LET attempts == <<Attempt("powershell", url, self.timeout, sh)>>
    IN  IF sh.kind = "exit"
        THEN IF sh.rc = 0 THEN Returned(TRUE, sh.stdout, attempts)
             ELSE Returned(FALSE, sh.stderr, attempts)
        ELSE IF sh.kind = "FileNotFoundError"
             THEN UrllibPath(self, url, ht, attempts)
        ELSE IF sh.kind = "TimeoutExpired"
             THEN Returned(FALSE, MSG.TimedOutPS, attempts)
        ELSE IF sh.kind \in ExceptionKinds
             THEN Returned(FALSE, MSG.PSFailed \o sh.exc, attempts)
        ELSE Raised(sh.kind, attempts)

\* the PowerShell block of invoke: try subprocess.run ... except
\* FileNotFoundError / TimeoutExpired / Exception
PowerShellPath(self, url, sh, ht) ==
    LET attempts == <<Attempt("powershell", url, self.timeout, sh)>>
    IN  IF sh.kind = "exit"
        THEN IF sh.rc = 0 THEN Returned(TRUE, sh.stdout, attempts)
             ELSE Returned(FALSE, IF sh.stderr # <<>> THEN sh.stderr ELSE sh.stdout,
                           attempts)
        ELSE IF sh.kind = "FileNotFoundError"
             THEN UrllibPath(self, url, ht, attempts)    \* fall through to urllib
        ELSE IF sh.kind = "TimeoutExpired"
             THEN Returned(FALSE, MSG.TimedOutPS, attempts)
        ELSE IF sh.kind \in ExceptionKinds
             THEN Returned(FALSE, MSG.PSFailed \o sh.exc, attempts)
        ELSE Raised(sh.kind, attempts)

\* invoke after url = self.build_url(params): os.name is os, subprocess.run
\* ends as sh and urlopen ends as ht
Transport(self, url, os, sh, ht) ==
    IF os = "nt" THEN PowerShellPath(self, url, sh, ht)
    ELSE UrllibPath(self, url, ht, <<>>)

\* the url invoke(request_type, value, zone_name) requests
InvokeURL(self, request_type, value, zone_name) ==
    build_url(self, InvokeParams(self, request_type, value, zone_name))

invoke(self, request_type, value, zone_name, os, sh, ht) ==
    Transport(self, InvokeURL(self, request_type, value, zone_name), os, sh, ht)

\* the params dict of the worker of fetch_site_name_threaded
SiteGetParams(username, password) ==
    <<  <<K.username, username>>,
        <<K.password, password>>,
        <<K.request, MSG.get>>,
        <<K.object, MSG.Site>>,
        <<K.value, MSG.altname>> >>

\* the params dict of the worker of set_altname_threaded
SiteSetParams(username, password, altname) ==
    <<  <<K.username, username>>,
        <<K.password, password>>,
        <<K.request, MSG.set>>,
        <<K.object, MSG.Site>>,
        <<K.value, MSG.altname_ \o altname>> >>

\* zs.get(zone_key, zone_key) for a zone map zs: display label -> thermostat
\* name, in config order
ZonesGetIn(zs, zone_key) ==
    IF \E i \in 1..Len(zs) : zs[i][1] = zone_key
    THEN zs[CHOOSE i \in 1..Len(zs) : zs[i][1] = zone_key][2]
    ELSE zone_key

-----------------------------------------------------------------------------
(* Configuration: DEFAULTS, as load_config returns it (configparser        *)
(* lower-cases the option names, so the zone labels are lower case).  A    *)
(* second zone stands for a config file that lists more than one.          *)

\* credentials, api and site sections
DEFAULTS ==
    [ username |->   \* "mymail@gmail.com"
        <<"m","y","m","a","i","l","@","g","m","a","i","l",".","c","o","m">>,
      password |->   \* "password"
        <<"p","a","s","s","w","o","r","d">>,
      base_url |->   \* "https://mysites.officeclimatecontrol.net/api.cgi"
        <<"h","t","t","p","s",":","/","/","m","y","s","i","t","e","s",".",
          "o","f","f","i","c","e","c","l","i","m","a","t","e","c","o","n",
          "t","r","o","l",".","n","e","t","/","a","p","i",".","c","g","i">>,
      altname |->   \* "Alt Name"
        <<"A","l","t"," ","N","a","m","e">> ]

\* self.zones: display label -> thermostat name, in config order
zones ==
    << << <<"t","h","e","r","m","o","s","t","a","t"," ","1">>,
          <<"Z","o","n","e"," ","1">> >>,
       << <<"t","h","e","r","m","o","s","t","a","t"," ","2">>,
          <<"Z","o","n","e"," ","2">> >> >>

ZoneKeys == {zones[i][1] : i \in 1..Len(zones)}

\* self.zones.get(zone_key, zone_key)
ZonesGet(zone_key) ==
    IF zone_key \in ZoneKeys
    THEN zones[CHOOSE i \in 1..Len(zones) : zones[i][1] = zone_key][2]
    ELSE zone_key

\* self.api
self_api == APIInvoker(DEFAULTS.base_url, DEFAULTS.username, DEFAULTS.password)

-----------------------------------------------------------------------------
(* The environment: what the vendor API and the transports can answer *)

\* "<system>Heat</system><temperature>70</temperature>"
Body_SystemTemp ==
    <<"<","s","y","s","t","e","m",">","H","e","a","t","<","/","s","y",
      "s","t","e","m",">","<","t","e","m","p","e","r","a","t","u","r",
      "e",">","7","0","<","/","t","e","m","p","e","r","a","t","u","r",
      "e",">">>

\* "<result><success>1</success></result>"
Body_Ack ==
    <<"<","r","e","s","u","l","t",">","<","s","u","c","c","e","s","s",
      ">","1","<","/","s","u","c","c","e","s","s",">","<","/","r","e",
      "s","u","l","t",">">>

\* "not xml"
Body_NotXml ==
    <<"n","o","t"," ","x","m","l">>

\* "Access is denied"
Err_Denied ==
    <<"A","c","c","e","s","s"," ","i","s"," ","d","e","n","i","e","d">>

\* "timed out"
Err_TimedOut ==
    <<"t","i","m","e","d"," ","o","u","t">>

\* "<urlopen error refused>"
Err_Refused ==
    <<"<","u","r","l","o","p","e","n"," ","e","r","r","o","r"," ","r",
      "e","f","u","s","e","d",">">>

ReplyBodies == {Body_SystemTemp, Body_Ack, Body_NotXml}

\* subprocess.run(["powershell", ...]): exit 0 with the content on stdout; a
\* non-zero exit with or without a diagnostic on stderr; powershell missing;
\* the timeout expired; another exception
ShellOutcomes ==
    {ShellExit(0, b, <<>>) : b \in ReplyBodies}
    \cup {ShellExit(1, <<>>, Err_Denied), ShellExit(1, Body_NotXml, <<>>)}
    \cup {Raises("FileNotFoundError", <<>>), Raises("TimeoutExpired", <<>>),
          Raises("Exception", Err_Denied)}

\* urlopen(url, timeout): the body; socket.timeout; another exception
HttpOutcomes ==
    {HttpBody(b) : b \in ReplyBodies}
    \cup {Raises("timeout", Err_TimedOut), Raises("Exception", Err_Refused)}

-----------------------------------------------------------------------------
(* ThermostatControlGUI: threaded requests and the Tk event loop *)

\* response_text[:200] in the message for a body that is not XML
RawLen == 200

\* the delays of root.after: a worker's completion, the debounce of a zone
\* change, the refresh after a set
DelayNow == 0

DelayZone == 120

DelayRefresh == 1200

\* the choices the set dialogs are confirmed with: f"{value_key}:{sel};"
SetValues ==
    { MSG.system_ \o <<"H","e","a","t",";">> }

NewThread(request_type, value, zone_key, zone_name) ==
    [request_type |-> request_type, value |-> value,
     zone_key |-> zone_key, zone_name |-> zone_name,
     pc |-> "invoke",
     result |-> Returned(FALSE, <<>>, <<>>),
     calls |-> <<>>,        \* the pipeline functions worker() has called
     delivered |-> <<>>]    \* the callbacks run on the UI thread for it

\* an entry of the Tk timer queue; thread is 0 for a callback no worker scheduled
After(delay, fn, thread, text) == [delay |-> delay, fn |-> fn, thread |-> thread, text |-> text]

\* _threaded_request(request_type, value): the part run on the UI thread
_threaded_request(request_type, value) ==
    LET zone_key  == zone_var
        zone_name == ZonesGet(zone_key)
    IN  /\ Len(threads) < MaxThreads
        /\ status_var' = MSG.Making \o request_type \o MSG.requestFor \o zone_key
                         \o <<".", ".", ".">>
        /\ result_text' = <<>>
        /\ threads' = Append(threads, NewThread(request_type, value, zone_key, zone_name))

\* the "Get All Info" button: get_all_info_threaded
ClickGetAllInfo ==
    /\ _threaded_request(MSG.get, ALL_FIELDS)
    /\ UNCHANGED <<os_name, zone_var, conf_last_zone, afterQ, parseVars, projVars, urlVars, siteVars, graph>>

TimersPending == Cardinality({i \in 1..Len(afterQ) : afterQ[i].delay > 0})

\* the combobox sets zone_var, then on_zone_selected runs
on_zone_selected(selected) ==
    /\ TimersPending < MaxTimers
    /\ zone_var' = selected
    /\ conf_last_zone' = selected
    /\ status_var' = <<EMOJI_RELOAD>> \o MSG.LoadingDataFor \o selected \o <<".", ".", ".">>
    /\ afterQ' = Append(afterQ, After(DelayZone, "get_all_info_threaded", 0, <<>>))
    /\ UNCHANGED <<os_name, threads, result_text, parseVars, projVars, urlVars, siteVars, graph>>

\* confirm() of open_simple_selection_dialog and of open_temperature_dialog
confirm(v) ==
    /\ TimersPending < MaxTimers
    /\ _threaded_request(MSG.set, v)
    /\ afterQ' = Append(afterQ, After(DelayRefresh, "get_all_info_threaded", 0, <<>>))
    /\ UNCHANGED <<os_name, zone_var, conf_last_zone, parseVars, projVars, urlVars, siteVars, graph>>

\* worker(): the call of self.api.invoke, which blocks until the transport
\* has answered
WorkerInvoke(t) ==
    /\ threads[t].pc = "invoke"
    /\ \E url \in {InvokeURL(self_api, threads[t].request_type, threads[t].value,
                             threads[t].zone_name)} :
         \E sh \in ShellOutcomes, ht \in HttpOutcomes :
           \E r \in {Transport(self_api, url, os_name, sh, ht)} :
             threads' = [threads EXCEPT
                           ![t].result = r,
                           ![t].pc = IF r.raised = "" THEN "process" ELSE "crashed"]
    /\ UNCHANGED <<os_name, zone_var, conf_last_zone, afterQ, result_text, status_var, parseVars, projVars, urlVars, siteVars, graph>>

\* worker() without the test of success: every body goes to the parser
WorkerOutcome_NoSuccessCheck(th, t) ==
    LET root == safe_parse_xml(th.result.text)
    IN  IF root.raised = ""
        THEN [calls |-> <<"safe_parse_xml", "extract_values_from_xml",
                          "_format_data_for_display">>,
              after |-> After(DelayNow, "_display_response", t,
                              _format_data_for_display(
                                  extract_values_from_xml(root.root), th.value))]
        ELSE [calls |-> <<"safe_parse_xml">>,
              after |-> After(DelayNow, "_display_error", t,
                              MSG.InvalidXML \o Prefix(th.result.text, RawLen)
                              \o <<".", ".", ".">>)]

\* worker(), after invoke has returned: what it calls and the callback it
\* hands to root.after(0, ...)
WorkerOutcome(th, t) ==
    IF th.result.success
    THEN LET root == safe_parse_xml(th.result.text)
         IN  IF root.raised = ""
             THEN [calls |-> <<"safe_parse_xml", "extract_values_from_xml",
                               "_format_data_for_display">>,
                   after |-> After(DelayNow, "_display_response", t,
                                   _format_data_for_display(
                                       extract_values_from_xml(root.root), th.value))]
             ELSE [calls |-> <<"safe_parse_xml">>,
                   after |-> After(DelayNow, "_display_error", t,
                                   MSG.InvalidXML \o Prefix(th.result.text, RawLen)
                                   \o <<".", ".", ".">>)]
    ELSE [calls |-> <<>>,
          after |-> After(DelayNow, "_display_error", t, th.result.text)]

\* worker() calling _display_response / _display_error itself, not through
\* root.after
WorkerProcess_Direct(t) ==
    /\ threads[t].pc = "process"
    /\ \E o \in {WorkerOutcome(threads[t], t)} :
         /\ threads' = [threads EXCEPT ![t].calls = o.calls, ![t].pc = "done"]
         /\ result_text' = Append(result_text, [text |-> o.after.text \o <<"\n">>, tag |-> ""])
         /\ status_var' = MSG.RequestFailed
    /\ UNCHANGED <<os_name, zone_var, conf_last_zone, afterQ, parseVars, projVars, urlVars, siteVars, graph>>

WorkerProcess(t) ==
    /\ threads[t].pc = "process"
    /\ \E o \in {WorkerOutcome(threads[t], t)} :
         /\ threads' = [threads EXCEPT ![t].calls = o.calls, ![t].pc = "done"]
         /\ afterQ' = Append(afterQ, o.after)
    /\ UNCHANGED <<os_name, zone_var, conf_last_zone, result_text, status_var, parseVars, projVars, urlVars, siteVars, graph>>

\* Tk runs a timer callback when it is due: an entry registered earlier with
\* a delay no longer than this one's is due no later and runs first
Due(i) == \A j \in 1..(i - 1) : afterQ[j].delay > afterQ[i].delay

Removed(q, i) == SubSeq(q, 1, i - 1) \o SubSeq(q, i + 1, Len(q))

Insert(text, tag) == [text |-> text, tag |-> tag]

\* what a callback run for a worker leaves in the thread's record: the
\* callback, its text argument and the chunk it inserted into the pane
Delivery(fn, text, shown) == [fn |-> fn, text |-> text, shown |-> shown]

\* _display_response naming the zone selected when it runs, not the one the
\* request was dispatched for
_display_response_CurrentZone(i) ==
    LET e   == afterQ[i]
        th  == threads[e.thread]
        ins == Insert(e.text \o <<"\n">>, "")
    IN  /\ e.fn = "_display_response"
        /\ Due(i)
        /\ result_text' = Append(result_text, ins)
        /\ status_var' = Capitalize(th.request_type) \o MSG.requestCompletedFor \o zone_var
        /\ threads' = [threads EXCEPT ![e.thread].delivered =
                          Append(@, Delivery(e.fn, e.text, ins))]
        /\ afterQ' = Removed(afterQ, i)
        /\ UNCHANGED <<os_name, zone_var, conf_last_zone, parseVars, projVars, urlVars, siteVars, graph>>

\* _display_response(text, request_type, zone_key)
_display_response(i) ==
    LET e   == afterQ[i]
        th  == threads[e.thread]
        ins == Insert(e.text \o <<"\n">>, "")
    IN  /\ e.fn = "_display_response"
        /\ Due(i)
        /\ result_text' = Append(result_text, ins)
        /\ status_var' = Capitalize(th.request_type) \o MSG.requestCompletedFor \o th.zone_key
        /\ threads' = [threads EXCEPT ![e.thread].delivered =
                          Append(@, Delivery(e.fn, e.text, ins))]
        /\ afterQ' = Removed(afterQ, i)
        /\ UNCHANGED <<os_name, zone_var, conf_last_zone, parseVars, projVars, urlVars, siteVars, graph>>

\* _display_error(text)
_display_error(i) ==
    LET e   == afterQ[i]
        ins == Insert(MSG.Error \o e.text \o <<"\n">>, "ERROR")
    IN  /\ e.fn = "_display_error"
        /\ Due(i)
        /\ result_text' = Append(result_text, ins)
        /\ status_var' = MSG.RequestFailed
        /\ threads' = [threads EXCEPT ![e.thread].delivered =
                          Append(@, Delivery(e.fn, e.text, ins))]
        /\ afterQ' = Removed(afterQ, i)
        /\ UNCHANGED <<os_name, zone_var, conf_last_zone, parseVars, projVars, urlVars, siteVars, graph>>

\* get_all_info_threaded run from the timer queue (zone change, refresh)
TimerGetAllInfo(i) ==
    /\ afterQ[i].fn = "get_all_info_threaded"
    /\ Due(i)
    /\ _threaded_request(MSG.get, ALL_FIELDS)
    /\ afterQ' = Removed(afterQ, i)
    /\ UNCHANGED <<os_name, zone_var, conf_last_zone, parseVars, projVars, urlVars, siteVars, graph>>

-----------------------------------------------------------------------------
(* Site name functions: the Site get at start-up, the Site set, and the      *)
(* logging helpers their callbacks use                                      *)

\* timeout=10 of subprocess.run and urlopen in the two site workers
SiteTimeout == 10

\* root.after(300, self.fetch_site_name_threaded) and
\* root.after(1200, lambda: self.set_altname_if_needed(self.altname))
DelayFetch == 300

DelaySetAltname == 1200

\* how subprocess.run (sh) and urlopen (ht) of a site worker can end. The
\* bodies: the altname of the site for a get and the acknowledgment for a
\* set, a reply without either, and a reply that is not XML
SiteOutcomes(kind) ==
    LET SiteBodies ==
            { IF kind = "get"
              THEN <<"<">> \o MSG.altname \o <<">">> \o server_altname
                   \o <<"<", "/">> \o MSG.altname \o <<">">>
              ELSE <<"<">> \o MSG.success \o <<">">> \o MSG.true
                   \o <<"<", "/">> \o MSG.success \o <<">">>,
              Body_Ack, Body_NotXml }
    IN  [ sh |-> {ShellExit(0, b, <<>>) : b \in SiteBodies}
                 \cup {ShellExit(1, <<>>, Err_Denied), Raises("Exception", Err_Denied)},
          ht |-> {HttpBody(b) : b \in SiteBodies}
                 \cup {Raises("timeout", Err_TimedOut), Raises("Exception", Err_Refused)} ]

\* a site worker thread: attempts are its transport calls, delivered the
\* callbacks run on the UI thread for it
SiteWorker(kind, altname) ==
    [kind |-> kind, altname |-> altname, pc |-> "run", attempts |-> <<>>,
     delivered |-> <<>>]

\* the loop over root.iter() of the fetch worker: the stripped text of the
\* first altname element that has text; None without one, and (as both end
\* the same way) for a body safe_parse_xml raises ET.ParseError on
AltnameIn(text) ==
    LET Found(parsed) ==
            LET hits == {i \in 1..Len(parsed.root) :
                            Lower(parsed.root[i].tag) = MSG.altname
                            /\ parsed.root[i].text # <<>>}
            IN  IF parsed.raised # "" \/ hits = {} THEN PyNone
                ELSE Strip(parsed.root[CHOOSE i \in hits : \A j \in hits : i <= j].text)
    IN  Found(safe_parse_xml(text))

\* the loop over root.iter() of the set worker: some success element has the
\* text "true", whatever its case and the white space around it
SuccessIn(root) ==
    \E i \in 1..Len(root) :
        Lower(root[i].tag) = MSG.success /\ Lower(Strip(root[i].text)) = MSG.true

\* log_info(text) / log_warn(text): the pane after _insert_text and the
\* status text
Logged(tag, text) ==
    [ pane   |-> Append(result_text, Insert(MSG.Timestamp \o text \o <<"\n">>, tag)),
      status |-> IF tag = "INFO"
                 THEN (IF Len(text) < 80 THEN text ELSE Prefix(text, 78) \o MSG.Ellipsis)
                 ELSE <<"U+26A0", " ">>    \* the warning sign, by code point
                      \o (IF Len(text) < 60 THEN text ELSE Prefix(text, 58) \o MSG.Ellipsis) ]

\* fetch_site_name_threaded run from the timer queue: starts the worker
fetch_site_name_threaded(i) ==
    /\ afterQ[i].fn = "fetch_site_name_threaded"
    /\ Due(i)
    /\ site' = Append(site, SiteWorker("get", <<>>))
    /\ afterQ' = Removed(afterQ, i)
    /\ UNCHANGED <<os_name, zone_var, conf_last_zone, threads, result_text, status_var,
                   site_name, title_label, server_altname, parseVars, projVars,
                   urlVars, graph>>

\* worker() of fetch_site_name_threaded: PowerShell on Windows, and urllib
\* whenever that did not yield an altname
FetchWorker(w) ==
    /\ site[w].kind = "get"
    /\ site[w].pc = "run"
    /\ \E sh \in SiteOutcomes("get").sh, ht \in SiteOutcomes("get").ht :
       \E url \in {build_url(self_api, SiteGetParams(self_api.username,
                                                     self_api.password))} :
       \E first \in {IF os_name = "nt" /\ sh.kind = "exit" /\ sh.rc = 0
                     THEN AltnameIn(sh.stdout) ELSE PyNone} :
       \E returned \in {first # PyNone /\ first # <<>>} :     \* if alt: ... return
       \E alt \in {IF returned THEN first
                   ELSE IF ht.kind = "ok" THEN AltnameIn(ht.stdout)
                   ELSE PyNone} :
           /\ site' = [site EXCEPT
                         ![w].pc = "done",
                         ![w].attempts =
                             (IF os_name = "nt"
                              THEN <<Attempt("powershell", url, SiteTimeout, sh)>>
                              ELSE <<>>)
                             \o (IF returned THEN <<>>
                                 ELSE <<Attempt("urllib", url, SiteTimeout, ht)>>)]
           /\ afterQ' = IF alt # PyNone /\ alt # <<>>
                        THEN Append(afterQ, After(DelayNow, "_set_site_name", w, alt))
                        ELSE afterQ
    /\ UNCHANGED <<os_name, zone_var, conf_last_zone, threads, result_text, status_var,
                   site_name, title_label, server_altname, parseVars, projVars,
                   urlVars, graph>>

\* _set_site_name(name) run from the timer queue
_set_site_name(i) ==
    LET e == afterQ[i]
        l == Logged("INFO", MSG.ConnectedToSite \o e.text)
    IN  /\ e.fn = "_set_site_name"
        /\ Due(i)
        /\ site_name' = e.text
        /\ title_label' = MSG.SiteDash \o e.text
        /\ result_text' = l.pane
        /\ status_var' = l.status
        /\ site' = [site EXCEPT ![e.thread].delivered = Append(@, e)]
        /\ afterQ' = Removed(afterQ, i)
        /\ UNCHANGED <<os_name, zone_var, conf_last_zone, threads, server_altname,
                       parseVars, projVars, urlVars, graph>>

\* set_altname_if_needed(altname) run from the timer queue
set_altname_if_needed(i) ==
    LET altname      == afterQ[i].text
        current_name == Lower(Strip(site_name))
        needed       == current_name \in default_names
        l            == Logged("INFO", IF needed THEN MSG.SettingSiteName \o altname
                                       ELSE MSG.AlreadySet \o site_name)
    IN  /\ afterQ[i].fn = "set_altname_if_needed"
        /\ Due(i)
        /\ result_text' = l.pane
        /\ status_var' = l.status
        /\ site' = IF needed THEN Append(site, SiteWorker("set", altname)) ELSE site
        /\ afterQ' = Removed(afterQ, i)
        /\ UNCHANGED <<os_name, zone_var, conf_last_zone, threads, site_name,
                       title_label, server_altname, parseVars, projVars, urlVars, graph>>

\* worker() of set_altname_threaded: one transport by os.name, then the test
\* of the reply
SetWorker(w) ==
    /\ site[w].kind = "set"
    /\ site[w].pc = "run"
    /\ \E sh \in SiteOutcomes("set").sh, ht \in SiteOutcomes("set").ht :
         LET altname == site[w].altname
             url     == build_url(self_api, SiteSetParams(self_api.username,
                                                          self_api.password, altname))
             o       == IF os_name = "nt" THEN sh ELSE ht
             out     == IF o.kind = "exit" THEN (IF o.rc = 0 THEN o.stdout ELSE o.stderr)
                        ELSE IF o.kind = "ok" THEN o.stdout
                        ELSE o.exc                                   \* out = str(ex)
             parsed  == safe_parse_xml(out)
             applied == o.kind \in {"exit", "ok"} /\ o.rc = 0 /\ SuccessIn(fromstring(o.stdout).nodes)
         IN  /\ site' = [site EXCEPT
                           ![w].pc = "done",
                           ![w].attempts =
                               <<Attempt(IF os_name = "nt" THEN "powershell" ELSE "urllib",
                                         url, SiteTimeout, o)>>]
             /\ afterQ' = afterQ \o
                    (IF parsed.raised # ""
                     THEN <<After(DelayNow, "log_warn", w, MSG.Unexpected)>>
                     ELSE IF SuccessIn(parsed.root)
                     THEN <<After(DelayNow, "_set_site_name", w, altname),
                            After(DelayNow, "log_info", w,
                                  <<EMOJI_CHECK>> \o MSG.SiteNameSetTo \o altname)>>
                     ELSE <<After(DelayNow, "log_warn", w, MSG.Restart)>>)
             /\ server_altname' = IF applied THEN altname ELSE server_altname
    /\ UNCHANGED <<os_name, zone_var, conf_last_zone, threads, result_text, status_var,
                   site_name, title_label, parseVars, projVars, urlVars, graph>>

\* log_info(text) / log_warn(text) run from the timer queue
log_callback(i) ==
    LET e == afterQ[i]
        l == Logged(IF e.fn = "log_info" THEN "INFO" ELSE "WARN", e.text)
    IN  /\ e.fn \in {"log_info", "log_warn"}
        /\ Due(i)
        /\ result_text' = l.pane
        /\ status_var' = l.status
        /\ site' = [site EXCEPT ![e.thread].delivered = Append(@, e)]
        /\ afterQ' = Removed(afterQ, i)
        /\ UNCHANGED <<os_name, zone_var, conf_last_zone, threads, site_name,
                       title_label, server_altname, parseVars, projVars, urlVars, graph>>

\* no site worker started, the name and the title as __init__ sets them
IdleSite ==
    /\ site_name = MSG.ClimateControl
    /\ title_label = MSG.SiteDash \o MSG.ClimateControl
    /\ site = <<>>
    /\ server_altname = <<>>

-----------------------------------------------------------------------------
(* ThermostatControlGUI.show_live_graph: the live graph window *)

\* "keep last 40 points"
KeepLast == 40

\* the ticks of one graph window that are followed
MaxTicks == 42

\* str(n) of a natural number
RECURSIVE Str(_)
Str(n) ==
    IF n < 10 THEN <<AsciiChars[n + 17]>>
    ELSE Str(n \div 10) \o <<AsciiChars[(n % 10) + 17]>>

\* float(vals.get(key, 0)): the number, or the message of the exception. Of
\* the strs the replies below put in a field, float() accepts the ones made
\* of decimal digits and raises ValueError on the others; on a list it
\* raises TypeError
FloatOf(vals, key) ==
    LET \* the number a str of decimal digits denotes
        DigitsValue(s) ==
            LET v[i \in 0..Len(s)] ==
                    IF i = 0 THEN 0 ELSE 10 * v[i - 1] + (Ord(s[i]) - 48)
            IN  v[Len(s)]
    IN  IF key \notin DOMAIN vals THEN [ok |-> TRUE, x |-> 0, msg |-> <<>>]
        ELSE IF vals[key].isList THEN [ok |-> FALSE, x |-> 0, msg |-> MSG.FloatArgument]
        ELSE IF vals[key].s # <<>> /\ \A i \in 1..Len(vals[key].s) : vals[key].s[i] \in Digits
             THEN [ok |-> TRUE, x |-> DigitsValue(vals[key].s), msg |-> <<>>]
        ELSE [ok |-> FALSE, x |-> 0, msg |-> MSG.CouldNotConvert \o Repr(vals[key].s)]

\* the body of update_graph once invoke has returned r: the five lists after
\* it, and the text handed to log_info (PyNone when nothing is logged)
GraphUpdate(g, r) ==
    LET Error(e) == MSG.GraphUpdateError \o e
        \* s[-n:]
        Last(s, n) == IF Len(s) > n THEN SubSeq(s, Len(s) - n + 1, Len(s)) ELSE s
        \* ax.plot(times, ys) for the four series in turn: the message of the
        \* ValueError of the first one whose length is not that of times,
        \* PyNone when all four are drawn
        PlotError(x) ==
            LET ys  == <<x.temp_data, x.discharge_data, x.cool_data, x.heat_data>>
                bad == {i \in 1..4 : Len(ys[i]) # Len(x.times)}
                Shape(n) == <<"(">> \o Str(n) \o <<",", ")">>
            IN  IF bad = {} THEN PyNone
                ELSE LET i == CHOOSE k \in bad : \A j \in bad : k <= j
                     IN  MSG.PlotShapes \o Shape(Len(x.times)) \o MSG.and
                         \o Shape(Len(ys[i]))
        \* the plot of the lists
        Plotted(x) ==
            LET WithError(e) == [g |-> x, log |-> IF e = PyNone THEN PyNone ELSE Error(e)]
            IN  WithError(PlotError(x))
        \* keep last 40 points
        Kept(x) ==
            IF Len(x.times) > KeepLast
            THEN [x EXCEPT !.times = Last(@, KeepLast),
                           !.temp_data = Last(@, KeepLast),
                           !.discharge_data = Last(@, KeepLast),
                           !.cool_data = Last(@, KeepLast),
                           !.heat_data = Last(@, KeepLast)]
            ELSE x
        \* the five appends, up to the first float() that raises
        Appended(t, d, c, h) ==
            LET g0 == [g EXCEPT !.times = Append(@, MSG.Clock)]
                g1 == [g0 EXCEPT !.temp_data = Append(@, t.x)]
                g2 == [g1 EXCEPT !.discharge_data = Append(@, d.x)]
                g3 == [g2 EXCEPT !.cool_data = Append(@, c.x)]
                g4 == [g3 EXCEPT !.heat_data = Append(@, h.x)]
            IN  IF ~t.ok THEN [g |-> g0, log |-> Error(t.msg)]
                ELSE IF ~d.ok THEN [g |-> g1, log |-> Error(d.msg)]
                ELSE IF ~c.ok THEN [g |-> g2, log |-> Error(c.msg)]
                ELSE IF ~h.ok THEN [g |-> g3, log |-> Error(h.msg)]
                ELSE Plotted(Kept(g4))
        Points(vals) ==
            Appended(FloatOf(vals, K.temperature), FloatOf(vals, K.value),
                     FloatOf(vals, K.coolsetting), FloatOf(vals, K.heatsetting))
        \* of the replies below, the one that does not parse is not XML content
        Parsed(p) ==
            IF p.raised # "" THEN [g |-> g, log |-> Error(MSG.NotXMLContent)]
            ELSE Points(extract_values_from_xml(p.root))
    IN  IF ~r.success THEN [g |-> g, log |-> MSG.GraphAPIError \o r.text]
        ELSE Parsed(safe_parse_xml(r.text))

\* what the thermostat answers to update_graph: all is well (no discharge
\* sensor, so no value), the API cannot be reached, the answer is not XML,
\* the temperature is not a number, two values, an empty heat setting
GraphFaults == {"down", "notxml", "badtemp", "listvalue", "badheat"}

\* the outcomes of the two transports for each answer
GraphOutcomes(device) ==
    LET \* "<tag>text</tag>"
        Elem(tag, text) ==
            <<"<">> \o tag \o <<">">> \o text \o <<"<", "/">> \o tag \o <<">">>
        temperature == Elem(K.temperature, <<"7","0">>)
        coolsetting == Elem(K.coolsetting, <<"7","2">>)
        heatsetting == Elem(K.heatsetting, <<"6","8">>)
        GraphBody ==
            CASE device = "notxml"    -> Body_NotXml
              [] device = "badtemp"   -> Elem(K.temperature, <<"N","/","A">>) \o coolsetting
                                         \o heatsetting
              [] device = "listvalue" -> temperature \o Elem(K.value, <<"5","5">>)
                                         \o Elem(K.value, <<"5","6">>) \o coolsetting
                                         \o heatsetting
              [] device = "badheat"   -> temperature \o coolsetting
                                         \o Elem(K.heatsetting, <<>>)
              [] OTHER                -> temperature \o coolsetting \o heatsetting
    IN  IF device = "down"
        THEN [sh |-> Raises("Exception", Err_Denied), ht |-> Raises("timeout", Err_TimedOut)]
        ELSE [sh |-> ShellExit(0, GraphBody, <<>>), ht |-> HttpBody(GraphBody)]

\* no live graph window
NoGraph ==
    [open |-> FALSE, after_id |-> FALSE, zone_key |-> <<>>, zone_name |-> <<>>,
     device |-> "ok", ticks |-> 0, ui_attempts |-> <<>>,
     times |-> <<>>, temp_data |-> <<>>, discharge_data |-> <<>>,
     cool_data |-> <<>>, heat_data |-> <<>>]

\* one run of update_graph, on the thread that calls it (the Tk main loop):
\* invoke and its transports, the lists, log_info, the next tick scheduled
UpdateGraph(g, device) ==
    \E o \in {GraphOutcomes(device)} :
    \E r \in {invoke(self_api, MSG.get, ALL_FIELDS, g.zone_name, os_name, o.sh, o.ht)} :
    \E u \in {GraphUpdate(g, r)} :
        /\ graph' = [u.g EXCEPT !.device = device, !.ticks = @ + 1,
                                !.ui_attempts = r.attempts,
                                \* graph_window.winfo_exists()
                                !.after_id = TRUE]
        /\ IF u.log = PyNone
           THEN UNCHANGED <<result_text, status_var>>
           ELSE /\ result_text' = Logged("INFO", u.log).pane
                /\ status_var' = Logged("INFO", u.log).status

\* show_live_graph: the window for the selected zone, and the first
\* update_graph
show_live_graph ==
    /\ graph = NoGraph
    /\ \E device \in {"ok"} \cup GraphFaults :
           UpdateGraph([graph EXCEPT !.open = TRUE, !.zone_key = zone_var,
                                     !.zone_name = ZonesGet(zone_var)], device)
    /\ UNCHANGED <<os_name, zone_var, conf_last_zone, threads, afterQ,
                   parseVars, projVars, urlVars, siteVars>>

\* the tick graph_window.after(20000, update_graph) scheduled
update_graph ==
    /\ graph.open
    /\ graph.after_id
    /\ graph.ticks < MaxTicks
    \* a fault, if there is one, is there when the window opens, lasts, and
    \* ends once
    /\ \E device \in (IF graph.device \in GraphFaults THEN {graph.device, "ok"} ELSE {"ok"}) :
           UpdateGraph(graph, device)
    /\ UNCHANGED <<os_name, zone_var, conf_last_zone, threads, afterQ,
                   parseVars, projVars, urlVars, siteVars>>

\* on_close: the pending tick cancelled, the window destroyed
on_close ==
    /\ graph.open
    /\ graph' = [graph EXCEPT !.after_id = FALSE, !.open = FALSE]
    /\ UNCHANGED <<guiVars, parseVars, projVars, urlVars, siteVars>>

\* the state after ThermostatControlGUI.__init__: the first zone selected
\* (ui.last_zone is empty), no request made
InitGUI ==
    /\ zone_var = zones[1][1]
    /\ conf_last_zone = <<>>
    /\ threads = <<>>
    /\ afterQ = <<>>
    /\ result_text = <<>>
    /\ status_var = <<EMOJI_CHECK>> \o MSG.Ready

\* the harnesses at rest: nothing handed to the parser, to the projector or to
\* the request builder
IdleParse ==
    /\ p_in = <<>>
    /\ p_pc = "idle"
    /\ p_root = ParseError
    /\ p_data = EmptyDict

IdleProject ==
    /\ f_data = EmptyDict
    /\ f_rv = <<>>
    /\ f_out = <<>>

NoURL == [params |-> <<>>, url |-> <<>>]

IdleURL ==
    /\ u_in = [kind |-> "none", username |-> <<>>, password |-> <<>>,
               request_type |-> <<>>, value |-> <<>>, zone_name |-> PyNone,
               zones |-> <<>>, zone_var |-> <<>>, altname |-> <<>>]
    /\ u_pc = "idle"
    /\ u_url = NoURL

Init ==
    /\ os_name \in {"nt", "posix"}
    /\ InitGUI
    /\ p_in = <<>>
    /\ p_pc = "idle"
    /\ p_root = ParseError
    /\ p_data = EmptyDict
    /\ IdleProject
    /\ IdleURL
    /\ IdleSite
    /\ graph = NoGraph

Next ==
    \/ ClickGetAllInfo
    \/ \E z \in ZoneKeys : on_zone_selected(z)
    \/ \E v \in SetValues : confirm(v)
    \/ \E t \in 1..Len(threads) : WorkerInvoke(t)
    \/ \E t \in 1..Len(threads) : WorkerProcess(t)
    \/ \E i \in 1..Len(afterQ) : _display_response(i)
    \/ \E i \in 1..Len(afterQ) : _display_error(i)
    \/ \E i \in 1..Len(afterQ) : TimerGetAllInfo(i)

Spec == Init /\ [][Next]_vars

-----------------------------------------------------------------------------
(* The program from its start: the two timers __init__ registers, the site  *)
(* workers and their callbacks, and then one data request                   *)

\* the state after ThermostatControlGUI.__init__, the timers of the site
\* name functions pending (self.altname is not empty)
InitSite ==
    /\ os_name \in {"nt", "posix"}
    /\ zone_var = zones[1][1]
    /\ conf_last_zone = <<>>
    /\ threads = <<>>
    /\ result_text = <<>>
    /\ status_var = <<EMOJI_CHECK>> \o MSG.Ready
    /\ afterQ = <<After(DelayFetch, "fetch_site_name_threaded", 0, <<>>),
                  After(DelaySetAltname, "set_altname_if_needed", 0, DEFAULTS.altname)>>
    /\ site_name = MSG.ClimateControl
    /\ title_label = MSG.SiteDash \o MSG.ClimateControl
    /\ site = <<>>
    \* the site's name on the server: a name of its own, a default one, none
    /\ server_altname \in {<<"H", "o", "m", "e">>, MSG.ClimateControl, <<>>}
    /\ graph = NoGraph
    /\ IdleParse
    /\ IdleProject
    /\ IdleURL

NextSite ==
    \/ \E i \in 1..Len(afterQ) : fetch_site_name_threaded(i)
    \/ \E w \in 1..Len(site) : FetchWorker(w)
    \/ \E i \in 1..Len(afterQ) : _set_site_name(i)
    \/ \E i \in 1..Len(afterQ) : set_altname_if_needed(i)
    \/ \E w \in 1..Len(site) : SetWorker(w)
    \/ \E i \in 1..Len(afterQ) : log_callback(i)
    \* one click on "Get All Info", once the start-up is over
    \/ (/\ threads = <<>>
        /\ afterQ = <<>>
        /\ \A w \in 1..Len(site) : site[w].pc = "done"
        /\ ClickGetAllInfo)
    \/ \E t \in 1..Len(threads) : WorkerInvoke(t)
    \/ \E t \in 1..Len(threads) : WorkerProcess(t)
    \/ \E i \in 1..Len(afterQ) : _display_response(i)
    \/ \E i \in 1..Len(afterQ) : _display_error(i)

SpecSite == InitSite /\ [][NextSite]_vars

-----------------------------------------------------------------------------
(* The live graph: one window, opened on the zone the program starts with *)

InitGraph ==
    /\ os_name \in {"nt", "posix"}
    /\ conf_last_zone \in {<<>>, zones[2][1]}
    /\ zone_var = (IF conf_last_zone = <<>> THEN zones[1][1] ELSE conf_last_zone)
    /\ threads = <<>>
    /\ afterQ = <<>>
    /\ result_text = <<>>
    /\ status_var = <<EMOJI_CHECK>> \o MSG.Ready
    /\ IdleParse
    /\ IdleProject
    /\ IdleURL
    /\ IdleSite
    /\ graph = NoGraph

NextGraph ==
    \/ show_live_graph
    \/ update_graph
    \/ on_close

SpecGraph == InitGraph /\ [][NextGraph]_vars

-----------------------------------------------------------------------------
(* The response parser on its own: parse(body) = extract_values_from_xml(   *)
(* safe_parse_xml(body)), applied to every body of a bounded set            *)

\* "<a>1</a><b>2</b>"
Body_AB ==
    <<"<","a",">","1","<","/","a",">","<","b",">","2","<","/","b",">">>

\* "<root><name>x</name><name>y</name></root>"
Body_Names ==
    <<"<","r","o","o","t",">","<","n","a","m","e",">","x","<","/","n",
      "a","m","e",">","<","n","a","m","e",">","y","<","/","n","a","m",
      "e",">","<","/","r","o","o","t",">">>

\* the bodies the parser is applied to: the generated ones, the examples, and
\* None
ParseInputs ==
    LET \* the pieces generated bodies are concatenated from
        Pieces ==
            { <<"<","r","o","o","t",">">>,
              <<"<","/","r","o","o","t",">">>,
              <<"<","a",">","1","<","/","a",">">>,
              <<"<","b",">","<","A",">"," ","2"," ","<","/","A",">","<","/","b",
                ">">>,
              <<"<","b","/",">">>,
              <<"<","a",">">>,
              <<"<","/","a",">">>,
              <<"x">>,
              <<" ">> }
        \* every concatenation of at most MaxPieces pieces
        GeneratedBodies ==
            {<<>>} \cup UNION {{Flatten(f) : f \in [1..n -> Pieces]} : n \in 1..MaxPieces}
    IN  GeneratedBodies
        \cup {Body_SystemTemp, Body_AB, Body_Names, Body_Ack, Body_NotXml, PyNone}

InitParse ==
    /\ os_name = "posix"
    /\ InitGUI
    /\ p_in \in ParseInputs
    /\ p_pc = "start"
    /\ p_root = ParseError
    /\ p_data = EmptyDict
    /\ IdleProject
    /\ IdleURL
    /\ IdleSite
    /\ graph = NoGraph

\* root = safe_parse_xml(body), or ParseError raised
Parse ==
    /\ p_pc = "start"
    /\ \E r \in {safe_parse_xml(p_in)} :
         /\ p_root' = r
         /\ p_pc' = IF r.raised = "" THEN "parsed" ELSE "failed"
    /\ UNCHANGED <<p_in, p_data, guiVars, projVars, urlVars, siteVars, graph>>

\* data = extract_values_from_xml(root)
Extract ==
    /\ p_pc = "parsed"
    /\ p_data' = extract_values_from_xml(p_root.root)
    /\ p_pc' = "extracted"
    /\ UNCHANGED <<p_in, p_root, guiVars, projVars, urlVars, siteVars, graph>>

NextParse == Parse \/ Extract

SpecParse == InitParse /\ [][NextParse]_vars

-----------------------------------------------------------------------------
(* The projector on its own: _format_data_for_display(data,                 *)
(* requested_values) called, more than once, on every fields map and every  *)
(* requested list of a bounded set                                          *)

\* the fields a generated map has at most
MaxFields == 2

\* the calls made on one pair of arguments
MaxCalls == 2

\* "root", the tag of the synthetic root element
Key_root == <<"r","o","o","t">>

\* the keys of generated maps: the known fields, "slaves" and "value" of a
\* slave record, and "root"
FieldKeys ==
    {K.description, K.system, K.fan, K.runstatus, K.temperature, K.humidity,
     K.slaves, K.value, K.heatsetting, K.coolsetting, K.frontkeypad, K.schedule,
     K.serialno, K.message, Key_root}

\* {"temperature": "72", "humidity": "45"}
Map_TempHumidity ==
    (K.temperature :> StrVal(<<"7","2">>)) @@ (K.humidity :> StrVal(<<"4","5">>))

\* the maps the projector is applied to
ProjectMaps ==
    LET \* the values of generated maps: a text, the empty text of an element
        \* without text, and the list of a tag that occurs twice
        FieldValues ==
            {StrVal(<<"7","2">>), StrVal(<<>>), ListVal(<< <<"7","0">>, <<"7","1">> >>)}
        GeneratedMaps ==
            UNION {[S -> FieldValues] :
                     S \in {T \in SUBSET FieldKeys : Cardinality(T) <= MaxFields}}
        \* a str of n characters c
        Rep(c, n) == [i \in 1..n |-> c]
        \* maps with a value just below, at and just above the length that
        \* len(v) < 300 and str(v)[:300] look at
        LongMaps ==
            {(Key_root :> StrVal(Rep("x", n))) : n \in {TruncLen - 1, TruncLen, TruncLen + 1}}
        \* the maps the parser makes of three reply bodies
        ParsedMaps ==
            {extract_values_from_xml(safe_parse_xml(b).root) :
                b \in {Body_SystemTemp, Body_Ack, Body_Names}}
        \* a map with every key
        Map_Full == [k \in FieldKeys |-> StrVal(<<"7","2">>)]
    IN  GeneratedMaps \cup LongMaps \cup ParsedMaps \cup {Map_TempHumidity, Map_Full}

\* "temperature;humidity;"
RV_TempHumidity ==
    <<"t","e","m","p","e","r","a","t","u","r","e",";","h","u","m","i",
      "d","i","t","y",";">>

\* "temperature;"
RV_Temperature ==
    <<"t","e","m","p","e","r","a","t","u","r","e",";">>

\* requested_values: the field list of a get, shorter field lists, the empty
\* str, and the values of set requests
RequestedLists ==
    LET \* "slaves;"
        RV_Slaves == <<"s","l","a","v","e","s",";">>
        \* "heatSetting:70;", the value of a set request of open_temperature_dialog
        RV_SetHeat == MSG.heatSetting_ \o <<"7","0",";">>
    IN  {ALL_FIELDS, RV_TempHumidity, RV_Temperature, RV_Slaves, <<>>, RV_SetHeat}
        \cup SetValues

\* a call that takes the message out of the dict it shows: data.pop("message")
CallFormat_Consuming(data, requested_values) ==
    [lines |-> FormatLines(data, requested_values),
     text  |-> _format_data_for_display(data, requested_values),
     data  |-> [k \in DOMAIN data \ {K.message} |-> data[k]]]

\* one call: the list "lines" at the return statement, the str returned, and
\* the dict as the call leaves it (no statement of the function assigns to
\* data or to one of its items)
CallFormat(data, requested_values) ==
    [lines |-> FormatLines(data, requested_values),
     text  |-> _format_data_for_display(data, requested_values),
     data  |-> data]

InitProject ==
    /\ os_name = "posix"
    /\ InitGUI
    /\ IdleParse
    /\ f_data \in ProjectMaps
    /\ f_rv \in RequestedLists
    /\ f_out = <<>>
    /\ IdleURL
    /\ IdleSite
    /\ graph = NoGraph

\* pretty = self._format_data_for_display(data, value)
Project ==
    /\ Len(f_out) < MaxCalls
    /\ \E r \in {CallFormat(f_data, f_rv)} :
         /\ f_out' = Append(f_out, [lines |-> r.lines, text |-> r.text])
         /\ f_data' = r.data
    /\ UNCHANGED <<f_rv, guiVars, parseVars, urlVars, siteVars, graph>>

NextProject == Project

SpecProject == InitProject /\ [][NextProject]_vars

-----------------------------------------------------------------------------
(* The request builder on its own: the params dict and the URL of every     *)
(* request the program makes, for credentials, values and zone names of a   *)
(* bounded set                                                              *)

\* the length of a generated str
MaxLen == 2

\* every str of at most n characters over a letter, the characters that have
\* a meaning in a query string, and space
Strings(n) == UNION {[1..k -> {"a", "&", "=", ";", ":", "+", "%", " "}] : k \in 0..n}

\* (username, password, value, zone_name): one of them any generated str, the
\* others "u" or the str of all the special characters
Quads ==
    UNION {{[i \in 1..4 |-> IF i = pos THEN s ELSE base[i]] :
               s \in Strings(MaxLen),
               base \in [1..4 -> {<<"u">>, <<"&", "=", ";", ":", "+", "%", " ">>}]} :
           pos \in 1..4}

Req(kind, username, password, request_type, value, zone_name, zs, zone_key, altname) ==
    [kind |-> kind, username |-> username, password |-> password,
     request_type |-> request_type, value |-> value, zone_name |-> zone_name,
     zones |-> zs, zone_var |-> zone_key, altname |-> altname]

\* the zone maps of the config (ZoneMaps): the one of this model, and one
\* label with any generated thermostat name, the empty one included
\* ("thermostat 1 ="); configparser strips the value, so a name neither
\* starts nor ends with a space
RequestInputs ==
    LET ZoneMaps ==
            {zones} \cup {<< <<zones[1][1], n>> >> :
                             n \in {m \in Strings(MaxLen) :
                                       m = <<>> \/ (m[1] # " " /\ m[Len(m)] # " ")}}
    IN
    \* api.invoke(request_type, value, zone_name), zone_name a str or None
    {Req("invoke", q[1], q[2], rt, q[3], q[4], <<>>, <<>>, <<>>) :
        q \in Quads \cup {[p \in 1..4 |-> IF p = 4 THEN PyNone ELSE r[p]] : r \in Quads},
        rt \in {MSG.get, MSG.set}}
    \* _threaded_request("get", ALL_FIELDS) and _threaded_request("set", value)
    \* with a zone map and a label of it selected (the combobox is read-only)
    \cup UNION {{Req("_threaded_request", DEFAULTS.username, DEFAULTS.password,
                     c[1], c[2], PyNone, zs, zs[i][1], <<>>) :
                    i \in 1..Len(zs),
                    c \in {<<MSG.get, ALL_FIELDS>>} \cup {<<MSG.set, v>> : v \in SetValues}} :
                zs \in ZoneMaps}
    \* fetch_site_name_threaded()
    \cup {Req("fetch_site_name_threaded", q[1], q[2], <<>>, <<>>, PyNone, <<>>, <<>>, <<>>) :
             q \in Quads}
    \* set_altname_threaded(altname); set_altname_if_needed is scheduled only
    \* for an altname that is not empty
    \cup {Req("set_altname_threaded", q[1], q[2], <<>>, <<>>, PyNone, <<>>, <<>>, q[3]) :
             q \in {r \in Quads : r[3] # <<>>}}

InitURL ==
    /\ os_name = "posix"
    /\ InitGUI
    /\ IdleParse
    /\ IdleProject
    /\ u_in \in RequestInputs
    /\ u_pc = "start"
    /\ u_url = NoURL
    /\ IdleSite
    /\ graph = NoGraph

\* invoke up to url = self.build_url(params)
URLInvoke ==
    /\ u_pc = "start"
    /\ u_in.kind = "invoke"
    /\ LET self == APIInvoker(DEFAULTS.base_url, u_in.username, u_in.password)
       IN  \E params \in {InvokeParams(self, u_in.request_type, u_in.value,
                                             u_in.zone_name)} :
               u_url' = [params |-> params, url |-> build_url(self, params)]
    /\ u_pc' = "built"
    /\ UNCHANGED <<u_in, guiVars, parseVars, projVars, siteVars, graph>>

\* _threaded_request: zone_name = self.zones.get(zone_key, zone_key), then
\* worker() calls self.api.invoke(request_type, value, zone_name=zone_name)
URLThreadedRequest ==
    /\ u_pc = "start"
    /\ u_in.kind = "_threaded_request"
    /\ LET self      == APIInvoker(DEFAULTS.base_url, u_in.username, u_in.password)
           zone_name == ZonesGetIn(u_in.zones, u_in.zone_var)
       IN  \E params \in {InvokeParams(self, u_in.request_type, u_in.value,
                                             zone_name)} :
               u_url' = [params |-> params, url |-> build_url(self, params)]
    /\ u_pc' = "built"
    /\ UNCHANGED <<u_in, guiVars, parseVars, projVars, siteVars, graph>>

\* worker() of fetch_site_name_threaded up to url = self.api.build_url(params)
URLFetchSiteName ==
    /\ u_pc = "start"
    /\ u_in.kind = "fetch_site_name_threaded"
    /\ LET self == APIInvoker(DEFAULTS.base_url, u_in.username, u_in.password)
       IN  \E params \in {SiteGetParams(u_in.username, u_in.password)} :
               u_url' = [params |-> params, url |-> build_url(self, params)]
    /\ u_pc' = "built"
    /\ UNCHANGED <<u_in, guiVars, parseVars, projVars, siteVars, graph>>

\* worker() of set_altname_threaded up to url = self.api.build_url(params)
URLSetAltname ==
    /\ u_pc = "start"
    /\ u_in.kind = "set_altname_threaded"
    /\ LET self == APIInvoker(DEFAULTS.base_url, u_in.username, u_in.password)
       IN  \E params \in {SiteSetParams(u_in.username, u_in.password,
                                              u_in.altname)} :
               u_url' = [params |-> params, url |-> build_url(self, params)]
    /\ u_pc' = "built"
    /\ UNCHANGED <<u_in, guiVars, parseVars, projVars, siteVars, graph>>

NextURL ==
    \/ URLInvoke
    \/ URLThreadedRequest
    \/ URLFetchSiteName
    \/ URLSetAltname

SpecURL == InitURL /\ [][NextURL]_vars

-----------------------------------------------------------------------------
(* Properties of the pipeline (Spec) *)

Threads == 1..Len(threads)

\* invoke has returned in worker t
Invoked(t) == threads[t].pc \in {"process", "done"}

\* the after(0) callbacks worker t has registered and that have not run yet
Queued(t) == {i \in 1..Len(afterQ) : afterQ[i].thread = t}

\* the last transport attempt of worker t: the one that produced its result
LastAttempt(t) == threads[t].result.attempts[Len(threads[t].result.attempts)]

\* C1: a get request for ALL_FIELDS whose transport returned
\* (True, "<system>Heat</system><temperature>70</temperature>") hands exactly
\* the lines "System:         Heat" and "Temperature:    70" + degree sign, in that order
\* and nothing else, to _display_response, once, and never to _display_error.
C1_Case(t) ==
    /\ Invoked(t)
    /\ threads[t].request_type = MSG.get
    /\ threads[t].value = ALL_FIELDS
    /\ threads[t].result.success
    /\ threads[t].result.text = Body_SystemTemp

C1_Lines == "System:         Heat\nTemperature:    70" \o DEG

C1_EndToEndGet ==
    \A t \in Threads : C1_Case(t) =>
        /\ \A i \in Queued(t) :
              afterQ[i].fn = "_display_response" /\ Show(afterQ[i].text) = C1_Lines
        /\ \A k \in 1..Len(threads[t].delivered) :
              /\ threads[t].delivered[k].fn = "_display_response"
              /\ Show(threads[t].delivered[k].text) = C1_Lines
              /\ Show(threads[t].delivered[k].shown.text) = C1_Lines \o "\n"
        /\ threads[t].pc = "done" => Cardinality(Queued(t)) + Len(threads[t].delivered) = 1

C1_Witness ==
    \E t \in Threads : C1_Case(t) /\ Len(threads[t].delivered) = 1

\* C2: when the transport returned (False, msg), the worker calls neither the
\* parser nor the projector, the only callback it registers is
\* _display_error(msg) with msg unchanged, the pane gets "Error: " + msg, and
\* _display_response is never run for the request.
C2_Case(t) == Invoked(t) /\ ~threads[t].result.success

C2_EndToEndFailure ==
    \A t \in Threads : C2_Case(t) =>
        /\ threads[t].calls = <<>>
        /\ \A i \in Queued(t) :
              afterQ[i].fn = "_display_error" /\ afterQ[i].text = threads[t].result.text
        /\ \A k \in 1..Len(threads[t].delivered) :
              /\ threads[t].delivered[k].fn = "_display_error"
              /\ threads[t].delivered[k].text = threads[t].result.text
              /\ threads[t].delivered[k].shown.text
                     = MSG.Error \o threads[t].result.text \o <<"\n">>
        /\ threads[t].pc = "done" => Cardinality(Queued(t)) + Len(threads[t].delivered) = 1

C2_Witness ==
    \E t \in Threads : C2_Case(t) /\ Len(threads[t].delivered) = 1

\* the characters a str of the model is made of
Chars == Range(AsciiChars) \cup Whitespace \cup {DEG}

IsStr(s) == \A i \in 1..Len(s) : s[i] \in Chars

\* C3: invoke never raises: whatever the transports did, the worker is past
\* invoke with a pair (success, body), success a bool and body a str, and
\* success is False when the attempt that produced the result raised.
C3_InvokeNeverRaises ==
    \A t \in Threads : threads[t].pc # "invoke" =>
        /\ threads[t].pc # "crashed"
        /\ threads[t].result.raised = ""
        /\ threads[t].result.success \in BOOLEAN
        /\ IsStr(threads[t].result.text)
        /\ LastAttempt(t).outcome.kind \in ExceptionKinds => ~threads[t].result.success

C3_Witness ==
    \E t \in Threads :
        /\ Invoked(t)
        /\ Len(threads[t].result.attempts) = 2
        /\ LastAttempt(t).outcome.kind = "Exception"

\* C4: on Windows the PowerShell fetch is attempted first and is the only
\* attempt unless powershell is not found; then one urllib GET of the same URL
\* follows and its outcome is what invoke returns; off Windows the urllib GET
\* is the only attempt.
UrllibResult(t, a) ==
    IF a.outcome.kind = "ok"
    THEN threads[t].result.success /\ threads[t].result.text = a.outcome.stdout
    ELSE ~threads[t].result.success
         /\ threads[t].result.text = MSG.UrllibFailed \o a.outcome.exc

C4_TransportFallback ==
    \A t \in Threads : Invoked(t) =>
        LET a == threads[t].result.attempts
        IN  IF os_name = "nt"
            THEN /\ a[1].transport = "powershell"
                 /\ IF a[1].outcome.kind = "FileNotFoundError"
                    THEN /\ Len(a) = 2
                         /\ a[2].transport = "urllib"
                         /\ a[2].url = a[1].url
                         /\ UrllibResult(t, a[2])
                    ELSE Len(a) = 1
            ELSE /\ Len(a) = 1
                 /\ a[1].transport = "urllib"
                 /\ UrllibResult(t, a[1])

C4_Witness ==
    \E t \in Threads :
        /\ Invoked(t)
        /\ os_name = "nt"
        /\ Len(threads[t].result.attempts) = 2
        /\ threads[t].result.success

\* C5: a timeout, on either transport, yields (False, the timeout message),
\* and no other failure yields a message of that form.  The timeout message
\* is the one that begins "Request timed out".
TimeoutKinds == {"TimeoutExpired", "timeout"}

IsTimeoutMessage(text) == StartsWith(text, Prefix(MSG.TimedOutPS, 17))

C5_TimeoutDistinct ==
    \A t \in Threads : (Invoked(t) /\ ~threads[t].result.success) =>
        (LastAttempt(t).outcome.kind \in TimeoutKinds
            <=> IsTimeoutMessage(threads[t].result.text))

\* C6 as stated: after a non-zero exit of the shell client invoke returns
\* (False, stderr) and makes no urllib attempt.
NonZeroExit(t) ==
    /\ Invoked(t)
    /\ threads[t].result.attempts[1].transport = "powershell"
    /\ threads[t].result.attempts[1].outcome.kind = "exit"
    /\ threads[t].result.attempts[1].outcome.rc # 0

C6_NonZeroExitStderr ==
    \A t \in Threads : NonZeroExit(t) =>
        /\ ~threads[t].result.success
        /\ threads[t].result.text = threads[t].result.attempts[1].outcome.stderr
        /\ Len(threads[t].result.attempts) = 1

\* C6 amended: after a non-zero exit invoke returns False with stderr when
\* stderr is not empty and with stdout otherwise, and makes no urllib attempt.
C6_NonZeroExitDiagnostic ==
    \A t \in Threads : NonZeroExit(t) =>
        LET o == threads[t].result.attempts[1].outcome
        IN  /\ ~threads[t].result.success
            /\ threads[t].result.text = (IF o.stderr # <<>> THEN o.stderr ELSE o.stdout)
            /\ Len(threads[t].result.attempts) = 1

C6_Witness ==
    \E t \in Threads :
        /\ NonZeroExit(t)
        /\ threads[t].result.attempts[1].outcome.stderr = <<>>
        /\ threads[t].result.text # <<>>

-----------------------------------------------------------------------------
(* Properties of the response parser (SpecParse) *)

\* the parser has been applied to p_in
Applied == p_pc \in {"parsed", "extracted", "failed"}

\* (text or ""): None counts as the empty str
OrEmpty(text) == IF text = PyNone THEN <<>> ELSE text

\* C7 as stated: parsing fails with ParseError whenever the body is None,
\* empty, white space only, or does not begin with "<".
C7_ParseErrorUnlessTagFirst ==
    (Applied /\ (OrEmpty(p_in) = <<>> \/ IsBlank(p_in) \/ Head(p_in) # "<"))
        => (p_pc = "failed" /\ p_root = ParseError)

\* C7 amended: parsing fails with ParseError, and no fields map is produced,
\* whenever the body with its leading and trailing white space removed is
\* empty (None, "", white space only) or does not begin with "<"; so for ""
\* and for "not xml".
C7_ParseErrorNotXml ==
    (Applied /\ (Strip(OrEmpty(p_in)) = <<>> \/ Head(Strip(OrEmpty(p_in))) # "<"))
        => (p_pc = "failed" /\ p_root = ParseError /\ p_data = EmptyDict)

C7_Witness == p_in = Body_NotXml /\ p_pc = "failed"

\* the lower-cased tag names written in the body
TagsIn(body) ==
    LET toks == Tokenize(Strip(OrEmpty(body)), 1)
    IN  {Lower(toks[i].name) : i \in {j \in 1..Len(toks) : toks[j].t \in {"open", "empty"}}}

\* the body is a sequence of two or more sibling elements without a root
Rootless(body) ==
    /\ ~fromstring(Strip(OrEmpty(body))).ok
    /\ p_root.raised = ""
    /\ Cardinality({i \in 1..Len(p_root.root) : p_root.root[i].parent = 1}) >= 2

\* C8: parse("<a>1</a><b>2</b>") is exactly {a: "1", b: "2"}, and for every
\* rootless sequence of sibling elements the keys of the map are exactly the
\* lower-cased tag names written in the fragment: the synthetic root adds none.
C8_SyntheticRootNoKey ==
    p_pc = "extracted" =>
        /\ p_in = Body_AB =>
              p_data = (<<"a">> :> StrVal(<<"1">>)) @@ (<<"b">> :> StrVal(<<"2">>))
        /\ Rootless(p_in) => DOMAIN p_data = TagsIn(p_in)

\* C9: parse("<root><name>x</name><name>y</name></root>") is exactly
\* {name: ["x", "y"]}.
C9_RepeatedName ==
    (p_pc = "extracted" /\ p_in = Body_Names) =>
        p_data = (<<"n","a","m","e">> :> ListVal(<< <<"x">>, <<"y">> >>))

\* the elements of the parsed tree whose lower-cased tag is k, in document order
RECURSIVE Occurrences(_, _, _)
Occurrences(root, k, i) ==
    IF i > Len(root) THEN <<>>
    ELSE (IF Lower(root[i].tag) = k THEN <<Strip(root[i].text)>> ELSE <<>>)
         \o Occurrences(root, k, i + 1)

-----------------------------------------------------------------------------
(* Properties of the projector (SpecProject) *)

\* the calls made so far
Calls == 1..Len(f_out)

\* the width of the label a known-field line starts with
LabelWidth == Len(LBL.description)

\* the label a line starts with
LabelOf(line) == Prefix(line, LabelWidth)

\* the labels in the order of the specification: cool setting, then heat setting
LabelsCoolFirst ==
    <<LBL.description, LBL.system, LBL.fan, LBL.runstatus, LBL.temperature,
      LBL.humidity, LBL.discharge, LBL.coolsetting, LBL.heatsetting,
      LBL.frontkeypad, LBL.schedule, LBL.serialno, LBL.message>>

\* the same with the heat setting before the cool setting
LabelsHeatFirst ==
    <<LBL.description, LBL.system, LBL.fan, LBL.runstatus, LBL.temperature,
      LBL.humidity, LBL.discharge, LBL.heatsetting, LBL.coolsetting,
      LBL.frontkeypad, LBL.schedule, LBL.serialno, LBL.message>>

IsKnownLine(line) == LabelOf(line) \in Range(LabelsHeatFirst)

Rank(order, line) == CHOOSE i \in 1..Len(order) : order[i] = LabelOf(line)

\* the known-field lines among lines are a subsequence of order: they appear
\* by strictly increasing rank
InOrder(order, lines) ==
    \A i, j \in 1..Len(lines) :
        (i < j /\ IsKnownLine(lines[i]) /\ IsKnownLine(lines[j]))
            => Rank(order, lines[i]) < Rank(order, lines[j])

\* C11 as stated: for every fields map and requested list, the known-field
\* lines come in the order description, system, fan, run status, temperature,
\* humidity, discharge temperature, cool setting, heat setting, front keypad,
\* schedule, serial number, message (Cool Setting before Heat Setting).
C11_CanonicalOrderCoolFirst ==
    \A c \in Calls : InOrder(LabelsCoolFirst, f_out[c].lines)

\* C11 amended: the known-field lines come in the order description, system,
\* fan, run status, temperature, humidity, discharge temperature, heat
\* setting, cool setting, front keypad, schedule, serial number, message
\* (Heat Setting before Cool Setting), each at most once.
C11_CanonicalOrderHeatFirst ==
    \A c \in Calls : InOrder(LabelsHeatFirst, f_out[c].lines)

\* every known-field line is emitted, the heat and cool settings among them
C11_Witness ==
    \E c \in Calls :
        {LabelOf(f_out[c].lines[i]) : i \in 1..Len(f_out[c].lines)}
            = Range(LabelsHeatFirst)

\* the fields whose line is gated by the requested list, each with its label
GatedFields ==
    << <<K.description, LBL.description>>, <<K.system, LBL.system>>,
       <<K.fan, LBL.fan>>, <<K.runstatus, LBL.runstatus>>,
       <<K.temperature, LBL.temperature>>, <<K.humidity, LBL.humidity>>,
       <<K.heatsetting, LBL.heatsetting>>, <<K.coolsetting, LBL.coolsetting>>,
       <<K.frontkeypad, LBL.frontkeypad>>, <<K.schedule, LBL.schedule>>,
       <<K.serialno, LBL.serialno>> >>

\* the same and the message field
KnownFields == GatedFields \o << <<K.message, LBL.message>> >>

\* a line with this label is among lines
Emitted(lines, label) == \E i \in 1..Len(lines) : LabelOf(lines[i]) = label

\* the items of a semicolon-delimited list: the maximal stretches without ";"
Items(s) ==
    {SubSeq(s, p[1], p[2]) :
        p \in {q \in (1..Len(s)) \X (1..Len(s)) :
                  /\ q[1] <= q[2]
                  /\ \A k \in q[1]..q[2] : s[k] # ";"
                  /\ (q[1] = 1 \/ s[q[1] - 1] = ";")
                  /\ (q[2] = Len(s) \/ s[q[2] + 1] = ";")}}

\* word is a stretch of consecutive characters of text
OccursIn(text, word) ==
    \E i \in 1..(Len(text) + 1) : \E j \in (i - 1)..Len(text) : SubSeq(text, i, j) = word

\* C12 as stated: the line of a known field (message included) is emitted
\* only if the field is a key of the map and its name is an item of the
\* semicolon-delimited requested list.
C12_GatedByListItem ==
    \A c \in Calls : \A f \in 1..Len(KnownFields) :
        Emitted(f_out[c].lines, KnownFields[f][2])
            => /\ KnownFields[f][1] \in DOMAIN f_data
               /\ KnownFields[f][1] \in Items(Lower(f_rv))

\* C12 amended: the line of description, system, fan, runstatus, temperature,
\* humidity, heatsetting, coolsetting, frontkeypad, schedule or serialno is
\* emitted if and only if the field is a key of the map with a value other
\* than "" and its name occurs somewhere in the lower-cased requested text;
\* the message line is emitted if and only if message is a key of the map.
C12_GatedBySubstring ==
    \A c \in Calls :
        /\ \A f \in 1..Len(GatedFields) :
              Emitted(f_out[c].lines, GatedFields[f][2])
                  <=> /\ GatedFields[f][1] \in DOMAIN f_data
                      /\ f_data[GatedFields[f][1]] # StrVal(<<>>)
                      /\ OccursIn(Lower(f_rv), GatedFields[f][1])
        /\ Emitted(f_out[c].lines, LBL.message) <=> K.message \in DOMAIN f_data

\* a field of the map that is not requested gives no line while a requested
\* one does
C12_Witness ==
    /\ Calls # {}
    /\ f_rv = RV_Temperature
    /\ DOMAIN f_data = {K.temperature, K.humidity}
    /\ Emitted(f_out[1].lines, LBL.temperature)
    /\ ~Emitted(f_out[1].lines, LBL.humidity)

\* the Discharge Temp lines among lines
DischargeLines(lines) == {i \in 1..Len(lines) : LabelOf(lines[i]) = LBL.discharge}

\* C13: when the map has the key slaves, requested or not, exactly one
\* Discharge Temp line is emitted, and it shows the discharge temperature of
\* the slave record, a single value, followed by the degree sign; when the map
\* has no key slaves, no Discharge Temp line is emitted.
C13_DischargeLine ==
    \A c \in Calls :
        IF K.slaves \in DOMAIN f_data
        THEN /\ Cardinality(DischargeLines(f_out[c].lines)) = 1
             /\ K.value \in DOMAIN f_data
             /\ ~f_data[K.value].isList
             /\ \A i \in DischargeLines(f_out[c].lines) :
                   f_out[c].lines[i] = LBL.discharge \o f_data[K.value].s \o <<DEG>>
        ELSE DischargeLines(f_out[c].lines) = {}

\* no known field matched: no line of the output is a known-field line
NoKnownLine(lines) == \A i \in 1..Len(lines) : ~IsKnownLine(lines[i])

\* a value as the fallback is said to show it: unchanged up to 300 characters,
\* cut to 300 characters and given an ellipsis when longer
ShownWhole(v) ==
    IF Len(PyStr(v)) > TruncLen THEN Prefix(PyStr(v), TruncLen) \o MSG.Ellipsis
    ELSE PyStr(v)

\* C14: when no known field matched and the map is not empty, the output has
\* one line per key, in lexicographic key order, each the capitalised key,
\* padded, ": " and the value; the value is cut and given an ellipsis if and
\* only if it is longer than 300 characters.
C14_FallbackTruncation ==
    \A c \in Calls : (DOMAIN f_data # {} /\ NoKnownLine(f_out[c].lines)) =>
        LET keys == Sorted(DOMAIN f_data)
        IN  /\ Len(f_out[c].lines) = Len(keys)
            /\ \A i \in 1..Len(keys) :
                  f_out[c].lines[i] = Pad(Capitalize(keys[i]), KeyWidth) \o <<":", " ">>
                                      \o ShownWhole(f_data[keys[i]])

\* C15: for the empty map and any requested list the output is exactly the
\* one line "No data returned by server."; and that line is in the output
\* only when the map is empty.
C15_NoDataLine ==
    \A c \in Calls :
        /\ DOMAIN f_data = {} =>
              f_out[c].lines = <<MSG.NoData>> /\ f_out[c].text = MSG.NoData
        /\ (\E i \in 1..Len(f_out[c].lines) : f_out[c].lines[i] = MSG.NoData)
              => DOMAIN f_data = {}

C15_Witness ==
    /\ f_data = EmptyDict
    /\ f_rv = RV_Temperature
    /\ Calls # {}
    /\ Show(f_out[1].text) = "No data returned by server."

\* what follows the value in the line of a known field
Suffix(key) ==
    IF key \in {K.temperature, K.heatsetting, K.coolsetting} THEN <<DEG>>
    ELSE IF key = K.humidity THEN <<"%">>
    ELSE <<>>

\* C16: the temperature, heat setting and cool setting lines are the label,
\* the value and the degree sign, the humidity line is the label, the value
\* and "%", and the line of every other known field is the label and the
\* value alone; project({temperature: "72", humidity: "45"},
\* "temperature;humidity;") is exactly "Temperature:    72" + degree sign,
\* then "Humidity:       45%".
C16_FieldRendering ==
    \A c \in Calls :
        /\ \A f \in 1..Len(KnownFields) : \A i \in 1..Len(f_out[c].lines) :
              LabelOf(f_out[c].lines[i]) = KnownFields[f][2] =>
                  /\ KnownFields[f][1] \in DOMAIN f_data
                  /\ f_out[c].lines[i] = KnownFields[f][2]
                                         \o PyStr(f_data[KnownFields[f][1]])
                                         \o Suffix(KnownFields[f][1])
        /\ (f_data = Map_TempHumidity /\ f_rv = RV_TempHumidity) =>
              /\ Len(f_out[c].lines) = 2
              /\ Show(f_out[c].lines[1]) = "Temperature:    72" \o DEG
              /\ Show(f_out[c].lines[2]) = "Humidity:       45%"

C16_Witness ==
    /\ f_data = Map_TempHumidity
    /\ f_rv = RV_TempHumidity
    /\ Len(f_out) = 1
    /\ Len(f_out[1].lines) = 2

-----------------------------------------------------------------------------
(* Properties of the request builder (SpecURL) *)

\* chr(n) of a printable character
Chr(n) == AsciiChars[n - 31]

\* the value of a hexadecimal digit, -1 for any other character
HexValue(c) ==
    IF \E i \in 1..16 : HexDigits[i] = c
    THEN (CHOOSE i \in 1..16 : HexDigits[i] = c) - 1
    ELSE IF c \in {"a", "b", "c", "d", "e", "f"}
    THEN 9 + (CHOOSE i \in 1..6 : <<"a", "b", "c", "d", "e", "f">>[i] = c)
    ELSE -1

\* percent-decoding as urllib.parse.unquote_plus does it: "+" is a space, "%"
\* followed by two hexadecimal digits is the character of that code, any
\* other character is itself
unquote_plus(s) ==
    LET IsEscape(i) == /\ s[i] = "%"
                       /\ i + 2 <= Len(s)
                       /\ HexValue(s[i + 1]) >= 0
                       /\ HexValue(s[i + 2]) >= 0
        Consumed(i) == \/ (i > 1 /\ IsEscape(i - 1))
                       \/ (i > 2 /\ IsEscape(i - 2))
    IN  Flatten([i \in 1..Len(s) |->
            IF Consumed(i) THEN <<>>
            ELSE IF IsEscape(i)
            THEN <<Chr(16 * HexValue(s[i + 1]) + HexValue(s[i + 2]))>>
            ELSE IF s[i] = "+" THEN <<" ">>
            ELSE <<s[i]>>])

\* s cut at every occurrence of the character sep
SplitAt(s, sep) ==
    LET starts   == {1} \cup {i + 1 : i \in {j \in 1..Len(s) : s[j] = sep}}
        Nth(n)   == CHOOSE b \in starts : Cardinality({x \in starts : x < b}) = n - 1
        EndOf(b) == IF \E j \in b..Len(s) : s[j] = sep
                    THEN (CHOOSE j \in b..Len(s) :
                             s[j] = sep /\ \A k \in b..(j - 1) : s[k] # sep) - 1
                    ELSE Len(s)
    IN  [n \in 1..Cardinality(starts) |-> SubSeq(s, Nth(n), EndOf(Nth(n)))]

\* a piece "key=raw" cut at its first "=": <<key, raw>>
KeyRaw(piece) ==
    IF \E i \in 1..Len(piece) : piece[i] = "="
    THEN LET i == CHOOSE i \in 1..Len(piece) :
                      piece[i] = "=" /\ \A j \in 1..(i - 1) : piece[j] # "="
         IN  <<SubSeq(piece, 1, i - 1), SubSeq(piece, i + 1, Len(piece))>>
    ELSE <<piece, <<>> >>

\* the query string of a URL (what follows its first "?") cut on "&" and "="
RawQuery(url) ==
    LET i == CHOOSE i \in 1..Len(url) : url[i] = "?" /\ \A j \in 1..(i - 1) : url[j] # "?"
        pieces == SplitAt(SubSeq(url, i + 1, Len(url)), "&")
    IN  [n \in 1..Len(pieces) |-> KeyRaw(pieces[n])]

\* the same with every value percent-decoded
DecodedQuery(url) ==
    LET q == RawQuery(url) IN [n \in 1..Len(q) |-> <<q[n][1], unquote_plus(q[n][2])>>]

\* the names of the parameters, in the order of the URL
ParamNames(q) == [n \in 1..Len(q) |-> Show(q[n][1])]

\* the zone name a request is made with: the argument of invoke, the name
\* the zone map gives the selected label, none for a Site request
ZoneGiven ==
    IF u_in.kind = "invoke" THEN u_in.zone_name
    ELSE IF u_in.kind = "_threaded_request"
    THEN (IF \E i \in 1..Len(u_in.zones) : u_in.zones[i][1] = u_in.zone_var
          THEN u_in.zones[CHOOSE i \in 1..Len(u_in.zones) :
                              u_in.zones[i][1] = u_in.zone_var][2]
          ELSE u_in.zone_var)
    ELSE PyNone

\* a zone name is given: a str that is not empty
HasZone == ZoneGiven # PyNone /\ ZoneGiven # <<>>

IsSiteRequest == u_in.kind \in {"fetch_site_name_threaded", "set_altname_threaded"}

\* C18: every request URL lists its parameters in the order username,
\* password, request, object, [selection], value; selection is there exactly
\* when a zone name is given, and is the percent-encoded "name:<zoneName>;";
\* request is the verb and object the object type, for the thermostat get and
\* set requests and for the Site get and set requests
C18_ParameterOrder ==
    u_pc = "built" =>
        \E raw \in {RawQuery(u_url.url)} :
        \E q \in {DecodedQuery(u_url.url)} :
            /\ ParamNames(q) =
                   IF HasZone
                   THEN <<"username", "password", "request", "object", "selection", "value">>
                   ELSE <<"username", "password", "request", "object", "value">>
            /\ Show(q[3][2]) = (IF IsSiteRequest
                                THEN (IF u_in.kind = "set_altname_threaded" THEN "set" ELSE "get")
                                ELSE Show(u_in.request_type))
            /\ Show(q[4][2]) = (IF IsSiteRequest THEN "Site" ELSE "Thermostat")
            /\ HasZone =>
                   /\ q[5][2] = <<"n", "a", "m", "e", ":">> \o ZoneGiven \o <<";">>
                   /\ \A i \in 1..Len(raw[5][2]) :
                          raw[5][2][i] \in AlwaysSafe \cup {"%", "+"}

C18_Witness ==
    /\ u_pc = "built"
    /\ u_in.kind = "invoke"
    /\ HasZone
    /\ Show(u_url.url) = "https://mysites.officeclimatecontrol.net/api.cgi?username=u&password=u&request=get&object=Thermostat&selection=name%3Aa%3B&value=u"

\* the decoded values of the parameters of this name
ValuesOf(q, name) == {q[n][2] : n \in {m \in 1..Len(q) : Show(q[m][1]) = name}}

\* the value a request is made with
ValueGiven ==
    IF u_in.kind = "fetch_site_name_threaded" THEN <<"a", "l", "t", "n", "a", "m", "e">>
    ELSE IF u_in.kind = "set_altname_threaded"
    THEN <<"a", "l", "t", "n", "a", "m", "e", ":">> \o u_in.altname
    ELSE u_in.value

\* C19: for every username, password, value and zone name over an alphabet
\* with "&", "=", ";", ":", "+", "%" and space, cutting the query string of
\* the built URL on "&" and "=" and percent-decoding each value gives back
\* the original strs: no parameter is split, merged or altered
C19_RoundTrip ==
    u_pc = "built" =>
        \E q \in {DecodedQuery(u_url.url)} :
            /\ Len(q) = (IF HasZone THEN 6 ELSE 5)
            /\ ValuesOf(q, "username") = {u_in.username}
            /\ ValuesOf(q, "password") = {u_in.password}
            /\ ValuesOf(q, "value") = {ValueGiven}
            /\ ValuesOf(q, "selection") =
                   IF HasZone THEN {<<"n", "a", "m", "e", ":">> \o ZoneGiven \o <<";">>}
                   ELSE {}

\* a request whose username, password, value and zone name are made of the
\* special characters
C19_Witness ==
    /\ u_pc = "built"
    /\ u_in.kind = "invoke"
    /\ u_in.username = <<"&", "=", ";", ":", "+", "%", " ">>
    /\ u_in.password = <<"&", "=", ";", ":", "+", "%", " ">>
    /\ u_in.value = <<"&", "=">>
    /\ u_in.zone_name = <<"&", "=", ";", ":", "+", "%", " ">>
    /\ ValuesOf(DecodedQuery(u_url.url), "value") = {<<"&", "=">>}
    /\ Show(u_url.url) = "https://mysites.officeclimatecontrol.net/api.cgi?username=%26%3D%3B%3A%2B%25+&password=%26%3D%3B%3A%2B%25+&request=get&object=Thermostat&selection=name%3A%26%3D%3B%3A%2B%25+%3B&value=%26%3D"

\* C20: every Thermostat request the program sends carries a selection
\* parameter and every Site request carries none, for every zone map of the
\* config (a label mapped to an empty thermostat name included) and every
\* selected label
C20_SelectionInvariant ==
    (u_pc = "built" /\ u_in.kind # "invoke") =>
        \E q \in {DecodedQuery(u_url.url)} :
            /\ ValuesOf(q, "object") = {<<"T", "h", "e", "r", "m", "o", "s", "t", "a", "t">>}
                   => ValuesOf(q, "selection") # {}
            /\ ValuesOf(q, "object") = {<<"S", "i", "t", "e">>}
                   => ValuesOf(q, "selection") = {}

-----------------------------------------------------------------------------
(* Properties of the threads and of the site name functions (SpecSite)      *)

\* a step of a worker thread: the position of a data worker or of a site
\* worker moves
WorkerStep ==
    \/ /\ Len(threads') = Len(threads)
       /\ \E t \in 1..Len(threads) : threads'[t].pc # threads[t].pc
    \/ /\ Len(site') = Len(site)
       /\ \E w \in 1..Len(site) : site'[w].pc # site[w].pc

\* C22: a worker thread never changes the results pane, the status bar, the
\* title label or site_name in its own steps; every change of them is made
\* on the UI thread, by a callback taken from the timer queue of root.after
\* or by the handler that dispatches a request
C22_WorkersLeaveUI ==
    [][ /\ WorkerStep => UNCHANGED <<result_text, status_var, title_label, site_name>>
        /\ ~UNCHANGED <<result_text, status_var, title_label, site_name>>
               => \/ Len(afterQ') < Len(afterQ)
                  \/ Len(threads') > Len(threads) ]_vars

\* the Site set was acknowledged and its callback has set the name, and a
\* data request has had its completion displayed
C22_Witness ==
    /\ \E w \in 1..Len(site) :
          /\ site[w].kind = "set"
          /\ \E d \in 1..Len(site[w].delivered) : site[w].delivered[d].fn = "_set_site_name"
    /\ site_name = DEFAULTS.altname
    /\ title_label = MSG.SiteDash \o DEFAULTS.altname
    /\ \E t \in 1..Len(threads) : threads[t].delivered # <<>>

\* a transport call that brought back a reply of the vendor API: powershell
\* exited with 0 and the content, or urlopen returned the body
Reached(a) ==
    \/ a.outcome.kind = "ok"
    \/ (a.outcome.kind = "exit" /\ a.outcome.rc = 0)

\* the number of requests of one operation that reached the vendor API
ReachedCount(attempts) == Cardinality({i \in 1..Len(attempts) : Reached(attempts[i])})

\* C23: no automatic retry: one operation (a data fetch, a set, a site-name
\* fetch, a site-name set) has at most one HTTP request reach the vendor
\* API, also after a transport failure, a parse failure or a reply without
\* the expected marker
C23_NoRetry ==
    /\ \A t \in 1..Len(threads) : ReachedCount(threads[t].result.attempts) <= 1
    /\ \A w \in 1..Len(site) : ReachedCount(site[w].attempts) <= 1

\* the last transport call of a finished site worker failed, or brought back
\* a body that safe_parse_xml rejects
SiteFailed(w) ==
    LET a == site[w].attempts[Len(site[w].attempts)]
    IN  ~Reached(a) \/ safe_parse_xml(a.outcome.stdout).raised # ""

\* an error or a warning for the site worker w is on its way to the UI
\* thread or has been shown
SiteReported(w) ==
    \/ \E i \in 1..Len(afterQ) :
          afterQ[i].thread = w /\ afterQ[i].fn \in {"log_warn", "log_error"}
    \/ \E d \in 1..Len(site[w].delivered) :
          site[w].delivered[d].fn \in {"log_warn", "log_error"}

\* the same for the data worker t
DataReported(t) ==
    \/ \E i \in 1..Len(afterQ) : afterQ[i].thread = t /\ afterQ[i].fn = "_display_error"
    \/ \E d \in 1..Len(threads[t].delivered) : threads[t].delivered[d].fn = "_display_error"

\* C24: nothing is silently swallowed: every transport failure and every
\* parse failure of every API call, the site-name fetch and the site-name
\* set included, has an error or a warning surfaced to the caller
C24_NothingSwallowed ==
    /\ \A w \in 1..Len(site) :
          (site[w].pc = "done" /\ SiteFailed(w)) => SiteReported(w)
    /\ \A t \in 1..Len(threads) :
          (/\ threads[t].pc = "done"
           /\ (~threads[t].result.success
               \/ safe_parse_xml(threads[t].result.text).raised # ""))
              => DataReported(t)

\* the callbacks registered for the site worker w: those waiting in the timer
\* queue and those already run
SiteReports(w) ==
    {afterQ[i].fn : i \in {j \in 1..Len(afterQ) :
                              /\ afterQ[j].thread = w
                              /\ afterQ[j].fn \in {"_set_site_name", "log_info",
                                                   "log_warn", "log_error"}}}
    \cup {site[w].delivered[d].fn : d \in 1..Len(site[w].delivered)}

\* the reply is XML with a success element whose text is true
Acknowledged(a) ==
    /\ Reached(a)
    /\ safe_parse_xml(a.outcome.stdout).raised = ""
    /\ \E n \in 1..Len(safe_parse_xml(a.outcome.stdout).root) :
          LET e == safe_parse_xml(a.outcome.stdout).root[n]
          IN  Lower(e.tag) = <<"s", "u", "c", "c", "e", "s", "s">>
              /\ Lower(Strip(e.text)) = <<"t", "r", "u", "e">>

\* C25: a reply to the site-name set that is XML without a success marker
\* equal to true is reported as a warning, not an error, and leaves the
\* local site name alone; the name and the title change only for a reply
\* with <success>true</success>; a transport failure of the set is reported
\* as a failure, not as the warning
C25_SetAcknowledgment ==
    \A w \in 1..Len(site) :
        (site[w].kind = "set" /\ site[w].pc = "done") =>
            LET a == site[w].attempts[1]
            IN  /\ (/\ Reached(a)
                    /\ safe_parse_xml(a.outcome.stdout).raised = ""
                    /\ ~Acknowledged(a))
                       => SiteReports(w) = {"log_warn"}
                /\ "_set_site_name" \in SiteReports(w) => Acknowledged(a)
                /\ ~Reached(a) => /\ "log_error" \in SiteReports(w)
                                  /\ "log_warn" \notin SiteReports(w)

\* C26: over every interleaving of the start-up fetch and the later
\* set_altname_if_needed, a Site set request is issued only if the name the
\* site has on the server is empty or one of the default names
C26_SetOnlyIfDefault ==
    [][ (Len(site') > Len(site) /\ site'[Len(site')].kind = "set")
            => Lower(Strip(server_altname)) \in default_names ]_vars
-----------------------------------------------------------------------------
(* Properties of the live graph (SpecGraph) *)

\* C21: every API call is dispatched on a background thread: no transport
\* call ever executes on the UI thread, for every entry point that issues a
\* request, the periodic fetch of the live graph included. The data requests
\* and the site name requests reach the transports in the steps of their
\* workers; update_graph runs on the UI thread, so the claim says that it has
\* reached no transport
C21_NoTransportOnUI == graph.ui_attempts = <<>>

\* the lengths of the five series of the live graph
SeriesLengths ==
    {Len(graph.times), Len(graph.temp_data), Len(graph.discharge_data),
     Len(graph.cool_data), Len(graph.heat_data)}

\* C30: after any sequence of update_graph ticks the five series times,
\* temp_data, discharge_data, cool_data and heat_data have the same length,
\* which is at most 40; and once the graph window is closed no tick of
\* update_graph is pending
C30_GraphBuffers ==
    /\ Cardinality(SeriesLengths) = 1
    /\ \A n \in SeriesLengths : n <= KeepLast
    /\ ~graph.open => ~graph.after_id
-----------------------------------------------------------------------------
(* Properties of the requests in flight (Spec) *)

\* the workers of the set requests, and the refreshes the dialogs have
\* registered and that have not run yet
SetThreads == {t \in Threads : threads[t].request_type = MSG.set}

RefreshPending ==
    {i \in 1..Len(afterQ) : afterQ[i].fn = "get_all_info_threaded"
                            /\ afterQ[i].delay = DelayRefresh}

\* the refreshes run in the order the dialogs registered them, so the first
\* one pending belongs to the set request that has that many later ones
RefreshedSet ==
    CHOOSE t \in SetThreads :
        Cardinality({s \in SetThreads : s >= t}) = Cardinality(RefreshPending)

\* the step in which the refresh a dialog registered issues its get request
RefreshIssued ==
    /\ \E i \in RefreshPending : afterQ' = Removed(afterQ, i)
    /\ Len(threads') = Len(threads) + 1

\* C27: after a set is confirmed in a dialog, the refreshing get request is
\* issued only after the set request has completed: its worker has received
\* the response or the failure of the transport
C27_RefreshAfterSet == [][RefreshIssued => Invoked(RefreshedSet)]_vars

\* the completions of worker t: the callbacks it has registered, run or not
Completions(t) == Len(threads[t].delivered) + Cardinality(Queued(t))

\* one completion per request whose transport call has returned and whose
\* worker has finished, none before, and a completion is one of the two
\* callbacks
OneCompletion ==
    \A t \in Threads :
        /\ Completions(t) = (IF threads[t].pc = "done" THEN 1 ELSE 0)
        /\ \A i \in Queued(t) : afterQ[i].fn \in {"_display_response", "_display_error"}
        /\ \A k \in 1..Len(threads[t].delivered) :
               threads[t].delivered[k].fn \in {"_display_response", "_display_error"}

\* a request takes the zone selected when it is dispatched and keeps it
ZoneAtDispatch ==
    /\ \A t \in Threads :
           /\ threads'[t].zone_key = threads[t].zone_key
           /\ threads'[t].zone_name = threads[t].zone_name
    /\ Len(threads') > Len(threads) =>
           /\ threads'[Len(threads')].zone_key = zone_var
           /\ threads'[Len(threads')].zone_name = ZonesGet(zone_var)

\* every transport call of a request is made with the URL that names the
\* device of that zone
DeviceTargeted ==
    \A t \in Threads :
        threads[t].pc = "invoke" /\ threads'[t].pc # "invoke" =>
            /\ threads'[t].result.attempts # <<>>
            /\ \A k \in 1..Len(threads'[t].result.attempts) :
                   threads'[t].result.attempts[k].url
                       = InvokeURL(self_api, threads[t].request_type, threads[t].value,
                                   threads[t].zone_name)

\* the completion _display_response reports names the zone of the request
ZoneReported ==
    \A t \in Threads :
        (/\ Len(threads'[t].delivered) > Len(threads[t].delivered)
         /\ threads'[t].delivered[Len(threads'[t].delivered)].fn = "_display_response")
        => status_var' = Capitalize(threads[t].request_type) \o MSG.requestCompletedFor
                         \o threads[t].zone_key

\* C28: every request dispatched by _threaded_request delivers exactly one
\* completion to the UI thread, _display_response or _display_error, never
\* both or neither, provided the transport call returns; the zone label
\* reported in that completion and the device targeted by the request are the
\* ones selected at dispatch time, even if the selection changes while the
\* request is in flight
C28_OneCompletionForDispatchZone ==
    /\ []OneCompletion
    /\ [][ZoneAtDispatch /\ DeviceTargeted /\ ZoneReported]_vars

\* a request for the first zone has completed through _display_response
\* while the second zone is selected
C28_Witness ==
    \E t \in Threads :
        /\ threads[t].zone_key # zone_var
        /\ Len(threads[t].delivered) = 1
        /\ threads[t].delivered[1].fn = "_display_response"
        /\ status_var = Capitalize(threads[t].request_type) \o MSG.requestCompletedFor
                        \o threads[t].zone_key

\* several requests were dispatched and each has delivered its completion
AllCompleted ==
    /\ Len(threads) > 1
    /\ \A t \in Threads : Len(threads[t].delivered) = 1

\* C29: with several requests in flight, once all of them have completed the
\* results pane contains the output of the most recently dispatched request
\* only: no completion of an earlier request is appended after a later
\* request was dispatched
C29_PaneOfLastRequest ==
    AllCompleted => result_text = <<threads[Len(threads)].delivered[1].shown>>
====
